---- MODULE Spec2Model ----
(***************************************************************************)
(* The simulation core of the tower-defence game in src/game.js: the       *)
(* economy (gold, lives, score), the wave director, the registries of      *)
(* towers, colonies, enemies and projectiles, the asynchronous model loads *)
(* behind placements and spawns, and the per-frame step.                   *)
(*                                                                         *)
(* Geometry.  Every distance test of the code is a comparison of a         *)
(* Euclidean distance with a constant, and every direction is a normalised *)
(* difference of two positions.  The model places the path, the towers and *)
(* the enemies on one line: a position is an integer number of 1/Scale     *)
(* world units, a distance is an absolute difference, and a normalised     *)
(* direction is a sign.  The vertical offsets of the meshes are left out.  *)
(*                                                                         *)
(* Time.  The code stamps lastFired / lastShot with Date.now() and only    *)
(* ever reads currentTime - lastFired.  The model keeps that difference    *)
(* (sinceFired, sinceShot), in milliseconds, saturated at SinceCap, which  *)
(* is above every fire interval; a frame step adds the time that passed    *)
(* since the previous frame step.                                          *)
(***************************************************************************)
EXTENDS Integers, Sequences, FiniteSets, Bags, TLC

(* ------------------------------ bounds -------------------------------- *)
\* points of the length grid per world unit
Scale == 10
\* number of waypoints of the path (19 in createEnhancedPath)
PathLen == 3
\* length of one path segment, in world units
SegLen == 2
\* the path progress that completes a segment: 1.0 in the code, whose speeds
\* are a few 1/10000; the model counts progress in 1/10000 and completes a
\* segment at ProgressFull of them, so that a segment takes a few frames
ProgressFull == 48
\* most towers, placed or being loaded
MaxTowers == 2
\* most colonies, placed or being loaded
MaxColonies == 2
\* most placements awaiting their model load at once
MaxPendingPlace == 2
\* most spawns awaiting their model load at once
MaxPendingSpawn == 2
\* most enemies alive or being loaded at once
MaxEnemies == 2
\* last wave that startNextWave may start
MaxWave == 4
\* last wave that startNextWave may start in SpecDirector
MaxWaveCmd == 12
\* last wave that startNextWave may start in SpecCombat
MaxWaveCombat == 1
\* enemies spawned or loading in the wave of SpecCombat
MaxSpawnedCombat == 2
\* enemies spawned or loading in the wave of SpecPause
MaxSpawnedPause == 1
\* last wave that startNextWave may start in SpecAttack
MaxWaveAttack == 4
MaxWaveFair == 1

(* ------------------------- program constants -------------------------- *)
InitGold == 600
InitLives == 25
InitEnemiesInWave == 4

towerTypes ==
    [ basic        |-> [cost |-> 40,   damage |-> 25, range |-> 10, fireRate |-> 900],
      missile      |-> [cost |-> 85,   damage |-> 60, range |-> 12, fireRate |-> 1400],
      laser        |-> [cost |-> 130,  damage |-> 40, range |-> 18, fireRate |-> 350],
      colony       |-> [cost |-> 200,  damage |-> 0,  range |-> 0,  fireRate |-> 0],
      playerAttack |-> [cost |-> 1000, damage |-> 0,  range |-> 0,  fireRate |-> 0] ]

TowerKinds == {"basic", "missile", "laser"}
Kinds == TowerKinds \cup {"colony", "playerAttack"}

\* placeTower's three minimum distances
TowerSpacing == 6 * Scale
ColonySpacing == 10 * Scale
PathClearance == 4 * Scale

\* spawnEnemy
EnemyFireRate == 2000
EnemyRange == 15 * Scale
BaseHealth(strong) == IF strong THEN 100 ELSE 60
BaseSpeed(strong) == IF strong THEN 25 ELSE 20
BaseReward(strong) == IF strong THEN 25 ELSE 15

\* fireProjectile, fireEnemyProjectile, updateProjectiles, updateEnemyProjectiles
ProjectileSpeed == (22 * Scale) \div 10
EnemyProjectileSpeed == (15 * Scale) \div 10
HitRadius == (18 * Scale) \div 10
ProjectileLife == 100
EnemyProjectileLife == 150

\* saturation of the elapsed times: above every fire interval
SinceCap == EnemyFireRate + 1

(* ------------------------------ inputs -------------------------------- *)
\* the path: PathLen waypoints, SegLen world units apart, indexed from 0
path == [i \in 0..(PathLen - 1) |-> i * SegLen * Scale]

\* the ground points a place command may pick: beyond the end of the path,
\* one too close to the last waypoint, one at exactly the path clearance,
\* one too close to a tower there, and two at exactly the colony spacing
PathEnd == path[PathLen - 1]
NearSite == PathEnd + PathClearance
PlaceXs == {NearSite - 1, NearSite, NearSite + TowerSpacing - 1,
            NearSite + ColonySpacing, NearSite + 2 * ColonySpacing}

\* the milliseconds that may pass between two frame steps
Dts == {350, 550}

\* the milliseconds between two frame steps of SpecCombat: twice this is
\* exactly the basic tower's fire interval
CombatDts == {450}

\* the ground points of SpecCombat: at exactly the path clearance before the
\* first waypoint and behind the last one
CombatXs == {path[0] - PathClearance, NearSite}

\* the ground points of SpecRange: at the path clearance before the first
\* waypoint, and at exactly the basic tower's range from the middle waypoint
RangeXs == {path[0] - PathClearance,
            path[1] + towerTypes["basic"].range * Scale}

\* the ground points of SpecReach: two at the same distance from the middle
\* waypoint, and one at exactly the range of the enemies from it
ReachXs == {path[0] - PathClearance, NearSite, path[1] + EnemyRange}

(* ------------------------------ helpers ------------------------------- *)
Abs(x) == IF x < 0 THEN -x ELSE x

\* BABYLON.Vector3.Distance on the line
Distance(a, b) == Abs(a - b)

\* Vector3.normalize on the line (the zero vector stays zero)
Normalize(x) == IF x > 0 THEN 1 ELSE IF x < 0 THEN -1 ELSE 0

\* BABYLON.Vector3.Lerp with the progress in 1/ProgressFull
Lerp(a, b, t) == a + ((b - a) * t) \div ProgressFull

\* Array.prototype.splice(i, 1)
RemoveAt(s, i) == SubSeq(s, 1, i - 1) \o SubSeq(s, i + 1, Len(s))

Min(a, b) == IF a < b THEN a ELSE b

Saturate(x) == Min(x, SinceCap)

RECURSIVE SumReward(_)
SumReward(es) == IF es = << >> THEN 0 ELSE Head(es).reward + SumReward(Tail(es))

(* ------------------------------- state -------------------------------- *)
VARIABLES
    gold, lives, score, wave, enemiesInWave, enemiesSpawned,
    selectedTowerType, gameStarted, isPaused,
    towers, enemies, projectiles, enemyProjectiles, colonies,
    pending,      \* the asynchronous operations in flight, a bag
    reloading,    \* location.reload() was called: the page is being replaced
    lastEvent     \* history: the handler that ran last and its outcome

vars == << gold, lives, score, wave, enemiesInWave, enemiesSpawned,
           selectedTowerType, gameStarted, isPaused,
           towers, enemies, projectiles, enemyProjectiles, colonies,
           pending, reloading, lastEvent >>

\* the constructor
Init ==
    /\ gold = InitGold
    /\ lives = InitLives
    /\ score = 0
    /\ wave = 0
    /\ enemiesInWave = InitEnemiesInWave
    /\ enemiesSpawned = 0
    /\ selectedTowerType = "basic"
    /\ gameStarted = FALSE
    /\ isPaused = FALSE
    /\ towers = << >>
    /\ enemies = << >>
    /\ projectiles = << >>
    /\ enemyProjectiles = << >>
    /\ colonies = << >>
    /\ pending = EmptyBag
    /\ reloading = FALSE
    /\ lastEvent = "init"


(* ---------------------------- the frame step -------------------------- *)
\* Date.now() at the top of updateEnemies / updateTowers: dt milliseconds
\* after the previous frame step
AgeTowers(ts, dt) ==
    [k \in 1..Len(ts) |-> [ts[k] EXCEPT !.sinceFired = Saturate(@ + dt)]]

AgeEnemies(es, dt) ==
    [k \in 1..Len(es) |-> [es[k] EXCEPT !.sinceShot = Saturate(@ + dt)]]

\* the scan of updateEnemies for the closest tower in range: the index of
\* the tower in this.towers, 0 for null
RECURSIVE ClosestTower(_, _, _, _, _)
ClosestTower(from, ts, k, target, closestDist) ==
    IF k > Len(ts) THEN target
    ELSE LET dist == Distance(from, ts[k].pos) IN
         IF dist < closestDist
         THEN ClosestTower(from, ts, k + 1, k, dist)
         ELSE ClosestTower(from, ts, k + 1, target, closestDist)

\* the scan of updateTowers for the closest enemy in range: the id of the
\* enemy, 0 for null
RECURSIVE ClosestEnemy(_, _, _, _, _)
ClosestEnemy(from, es, k, target, closestDist) ==
    IF k > Len(es) THEN target
    ELSE LET dist == Distance(from, es[k].pos) IN
         IF dist < closestDist
         THEN ClosestEnemy(from, es, k + 1, es[k].id, dist)
         ELSE ClosestEnemy(from, es, k + 1, target, closestDist)

\* the index in es of the enemy with this id, 0 when it has been removed
\* (its mesh is disposed)
RECURSIVE IndexOfEnemy(_, _, _)
IndexOfEnemy(es, id, k) ==
    IF k > Len(es) THEN 0
    ELSE IF es[k].id = id THEN k ELSE IndexOfEnemy(es, id, k + 1)

\* fireEnemyProjectile
EnemyProjectile(e, ts) ==
    [pos |-> e.pos, dir |-> Normalize(ts[e.target].pos - e.pos),
     target |-> e.target, life |-> 0]

\* (mutant) the movement with the progress cut back below a full segment,
\* so that the path index never advances
MoveEnemyStalled(e) ==
    LET progress == Min(e.pathProgress + e.speed, ProgressFull - 1)
        advance  == progress >= ProgressFull
        index    == IF advance THEN e.pathIndex + 1 ELSE e.pathIndex
        rest     == IF advance THEN 0 ELSE progress
    IN  [e EXCEPT !.pathIndex = index,
                  !.pathProgress = rest,
                  !.pos = IF index < PathLen - 1
                          THEN Lerp(path[index], path[index + 1], rest)
                          ELSE @]

\* the movement of one enemy that has not reached the last waypoint
MoveEnemy(e) ==
    LET progress == e.pathProgress + e.speed
        advance  == progress >= ProgressFull
        index    == IF advance THEN e.pathIndex + 1 ELSE e.pathIndex
        rest     == IF advance THEN 0 ELSE progress
    IN  [e EXCEPT !.pathIndex = index,
                  !.pathProgress = rest,
                  !.pos = IF index < PathLen - 1
                          THEN Lerp(path[index], path[index + 1], rest)
                          ELSE @]

\* (mutant) the loop body with the dead check ahead of the end-of-path test
EnemyBodyDeadFirst(st, i) ==
    LET e == st.enemies[i]
        m == IF e.pathIndex < PathLen - 1 THEN MoveEnemy(e) ELSE e
    IN
    IF m.health <= 0
    THEN [st EXCEPT !.gold = @ + m.reward,
                    !.score = @ + m.reward * 15,
                    !.enemies = RemoveAt(@, i)]
    ELSE IF e.pathIndex < PathLen - 1
    THEN LET target == ClosestTower(m.pos, st.towers, 1, 0, EnemyRange)
             aimed  == [m EXCEPT !.target = target]
             fire   == target # 0 /\ aimed.sinceShot > EnemyFireRate
         IN  IF fire
             THEN [st EXCEPT
                     !.enemies[i] = [aimed EXCEPT !.sinceShot = 0],
                     !.enemyProjectiles =
                         Append(@, EnemyProjectile(aimed, st.towers))]
             ELSE [st EXCEPT !.enemies[i] = aimed]
    ELSE [st EXCEPT !.lives = @ - 1,
                    !.enemies = RemoveAt(@, i),
                    !.reload = @ \/ (st.lives - 1 <= 0)]

\* (mutant) the scan of an enemy taking a tower at exactly its range as well
EnemyBodyInclusive(st, i) ==
    LET e == st.enemies[i] IN
    IF e.pathIndex < PathLen - 1
    THEN LET m == MoveEnemy(e) IN
         IF m.health <= 0
         THEN [st EXCEPT !.gold = @ + m.reward,
                         !.score = @ + m.reward * 15,
                         !.enemies = RemoveAt(@, i)]
         ELSE LET target == ClosestTower(m.pos, st.towers, 1, 0, EnemyRange + 1)
                  aimed  == [m EXCEPT !.target = target]
                  fire   == target # 0 /\ aimed.sinceShot > EnemyFireRate
              IN  IF fire
                  THEN [st EXCEPT
                          !.enemies[i] = [aimed EXCEPT !.sinceShot = 0],
                          !.enemyProjectiles =
                              Append(@, EnemyProjectile(aimed, st.towers))]
                  ELSE [st EXCEPT !.enemies[i] = aimed]
    ELSE [st EXCEPT !.lives = @ - 1,
                    !.enemies = RemoveAt(@, i),
                    !.reload = @ \/ (st.lives - 1 <= 0)]

\* (mutant) the end-of-path branch without its continue: the enemy that
\* costs a life is handed to the dead check and credited as well
EnemyBodyLeakCredited(st, i) ==
    LET e == st.enemies[i] IN
    IF e.pathIndex < PathLen - 1
    THEN LET m == MoveEnemy(e) IN
         IF m.health <= 0
         THEN [st EXCEPT !.gold = @ + m.reward,
                         !.score = @ + m.reward * 15,
                         !.enemies = RemoveAt(@, i)]
         ELSE LET target == ClosestTower(m.pos, st.towers, 1, 0, EnemyRange)
                  aimed  == [m EXCEPT !.target = target]
                  fire   == target # 0 /\ aimed.sinceShot > EnemyFireRate
              IN  IF fire
                  THEN [st EXCEPT
                          !.enemies[i] = [aimed EXCEPT !.sinceShot = 0],
                          !.enemyProjectiles =
                              Append(@, EnemyProjectile(aimed, st.towers))]
                  ELSE [st EXCEPT !.enemies[i] = aimed]
    ELSE IF e.health <= 0
    THEN [st EXCEPT !.lives = @ - 1,
                    !.gold = @ + e.reward,
                    !.score = @ + e.reward * 15,
                    !.enemies = RemoveAt(@, i),
                    !.reload = @ \/ (st.lives - 1 <= 0)]
    ELSE [st EXCEPT !.lives = @ - 1,
                    !.enemies = RemoveAt(@, i),
                    !.reload = @ \/ (st.lives - 1 <= 0)]

\* the body of the loop of updateEnemies for this.enemies[i]; st carries
\* the fields the loop writes
EnemyBody(st, i) ==
    LET e == st.enemies[i] IN
    IF e.pathIndex < PathLen - 1
    THEN LET m == MoveEnemy(e) IN
         IF m.health <= 0
         THEN [st EXCEPT !.gold = @ + m.reward,
                         !.score = @ + m.reward * 15,
                         !.enemies = RemoveAt(@, i)]
         ELSE LET target == ClosestTower(m.pos, st.towers, 1, 0, EnemyRange)
                  aimed  == [m EXCEPT !.target = target]
                  fire   == target # 0 /\ aimed.sinceShot > EnemyFireRate
              IN  IF fire
                  THEN [st EXCEPT
                          !.enemies[i] = [aimed EXCEPT !.sinceShot = 0],
                          !.enemyProjectiles =
                              Append(@, EnemyProjectile(aimed, st.towers))]
                  ELSE [st EXCEPT !.enemies[i] = aimed]
    ELSE \* reached the end: lose a life
         [st EXCEPT !.lives = @ - 1,
                    !.enemies = RemoveAt(@, i),
                    !.reload = @ \/ (st.lives - 1 <= 0)]

\* (mutant) the enemy loop losing its place after a removal: the enemy
\* before the removed one is passed over
RECURSIVE EnemyLoopSkipping(_, _)
EnemyLoopSkipping(st, i) ==
    IF i < 1 \/ i > Len(st.enemies) THEN st
    ELSE LET next == EnemyBody(st, i)
         IN  EnemyLoopSkipping(next,
                 IF Len(next.enemies) < Len(st.enemies) THEN i - 2 ELSE i - 1)

\* the loops run from the last index down to 0; a removal is a splice at
\* the current index, so the index stays within the list
RECURSIVE EnemyLoop(_, _)
EnemyLoop(st, i) ==
    IF i < 1 \/ i > Len(st.enemies) THEN st
    ELSE EnemyLoop(EnemyBody(st, i), i - 1)

\* updateEnemies
updateEnemies(st) == EnemyLoop(st, Len(st.enemies))

\* fireProjectile
Projectile(t, es) ==
    [pos |-> t.pos,
     dir |-> Normalize(es[IndexOfEnemy(es, t.target, 1)].pos - t.pos),
     damage |-> towerTypes[t.type].damage, target |-> t.target,
     life |-> 0, type |-> t.type]

\* (mutant) a tower skips the enemies that an earlier tower aims at
TowerBodyExclusive(st, k) ==
    LET t      == st.towers[k]
        taken  == {st.towers[h].target : h \in 1..(k - 1)}
        free   == SelectSeq(st.enemies, LAMBDA e : e.id \notin taken)
        target == ClosestEnemy(t.pos, free, 1, 0,
                               towerTypes[t.type].range * Scale)
        aimed  == [t EXCEPT !.target = target]
        fire   == target # 0 /\ aimed.sinceFired > towerTypes[t.type].fireRate
    IN  IF fire
        THEN [st EXCEPT !.towers[k] = [aimed EXCEPT !.sinceFired = 0],
                        !.projectiles = Append(@, Projectile(aimed, st.enemies))]
        ELSE [st EXCEPT !.towers[k] = aimed]

\* (mutant) the scan taking an enemy at exactly the range as well
TowerBodyInclusive(st, k) ==
    LET t      == st.towers[k]
        target == ClosestEnemy(t.pos, st.enemies, 1, 0,
                               towerTypes[t.type].range * Scale + 1)
        aimed  == [t EXCEPT !.target = target]
        fire   == target # 0 /\ aimed.sinceFired > towerTypes[t.type].fireRate
    IN  IF fire
        THEN [st EXCEPT !.towers[k] = [aimed EXCEPT !.sinceFired = 0],
                        !.projectiles = Append(@, Projectile(aimed, st.enemies))]
        ELSE [st EXCEPT !.towers[k] = aimed]

\* the body of the loop of updateTowers for the k-th tower
TowerBody(st, k) ==
    LET t      == st.towers[k]
        target == ClosestEnemy(t.pos, st.enemies, 1, 0,
                               towerTypes[t.type].range * Scale)
        aimed  == [t EXCEPT !.target = target]
        fire   == target # 0 /\ aimed.sinceFired > towerTypes[t.type].fireRate
    IN  IF fire
        THEN [st EXCEPT !.towers[k] = [aimed EXCEPT !.sinceFired = 0],
                        !.projectiles = Append(@, Projectile(aimed, st.enemies))]
        ELSE [st EXCEPT !.towers[k] = aimed]

RECURSIVE TowerLoop(_, _)
TowerLoop(st, k) ==
    IF k > Len(st.towers) THEN st ELSE TowerLoop(TowerBody(st, k), k + 1)

\* updateTowers
updateTowers(st) == TowerLoop(st, 1)

\* (mutant) every hit takes the basic tower's damage
ProjectileBodyBasicDamage(st, i) ==
    LET p     == st.projectiles[i]
        moved == [p EXCEPT !.pos = @ + p.dir * ProjectileSpeed, !.life = @ + 1]
        j     == IndexOfEnemy(st.enemies, p.target, 1)
    IN  IF j # 0 /\ Distance(moved.pos, st.enemies[j].pos) < HitRadius
        THEN [st EXCEPT !.enemies[j].health = @ - towerTypes["basic"].damage,
                        !.projectiles = RemoveAt(@, i)]
        ELSE IF moved.life > ProjectileLife
        THEN [st EXCEPT !.projectiles = RemoveAt(@, i)]
        ELSE [st EXCEPT !.projectiles[i] = moved]

\* (mutant) a projectile expires one update early
ProjectileBodyEarlyExpiry(st, i) ==
    LET p     == st.projectiles[i]
        moved == [p EXCEPT !.pos = @ + p.dir * ProjectileSpeed, !.life = @ + 1]
        j     == IndexOfEnemy(st.enemies, p.target, 1)
    IN  IF j # 0 /\ Distance(moved.pos, st.enemies[j].pos) < HitRadius
        THEN [st EXCEPT !.enemies[j].health = @ - moved.damage,
                        !.projectiles = RemoveAt(@, i)]
        ELSE IF moved.life >= ProjectileLife
        THEN [st EXCEPT !.projectiles = RemoveAt(@, i)]
        ELSE [st EXCEPT !.projectiles[i] = moved]

\* (mutant) a projectile whose target is gone hits the first enemy of the
\* registry that it finds within the hit radius
ProjectileBodyHitsAny(st, i) ==
    LET p     == st.projectiles[i]
        moved == [p EXCEPT !.pos = @ + p.dir * ProjectileSpeed, !.life = @ + 1]
        own   == IndexOfEnemy(st.enemies, p.target, 1)
        near  == {h \in 1..Len(st.enemies) :
                     Distance(moved.pos, st.enemies[h].pos) < HitRadius}
        j     == IF own # 0 \/ near = {} THEN own
                 ELSE CHOOSE h \in near : \A g \in near : h <= g
    IN  IF j # 0 /\ Distance(moved.pos, st.enemies[j].pos) < HitRadius
        THEN [st EXCEPT !.enemies[j].health = @ - moved.damage,
                        !.projectiles = RemoveAt(@, i)]
        ELSE IF moved.life > ProjectileLife
        THEN [st EXCEPT !.projectiles = RemoveAt(@, i)]
        ELSE [st EXCEPT !.projectiles[i] = moved]

\* (mutant) a projectile whose target is gone takes the first enemy of the
\* registry as its target and turns towards it
ProjectileBodyRetarget(st, i) ==
    LET p     == st.projectiles[i]
        own   == IndexOfEnemy(st.enemies, p.target, 1)
        aimed == IF own # 0 \/ Len(st.enemies) = 0 THEN p
                 ELSE [p EXCEPT !.target = st.enemies[1].id,
                                !.dir = Normalize(st.enemies[1].pos - p.pos)]
        moved == [aimed EXCEPT !.pos = @ + aimed.dir * ProjectileSpeed,
                               !.life = @ + 1]
        j     == IndexOfEnemy(st.enemies, moved.target, 1)
    IN  IF j # 0 /\ Distance(moved.pos, st.enemies[j].pos) < HitRadius
        THEN [st EXCEPT !.enemies[j].health = @ - moved.damage,
                        !.projectiles = RemoveAt(@, i)]
        ELSE IF moved.life > ProjectileLife
        THEN [st EXCEPT !.projectiles = RemoveAt(@, i)]
        ELSE [st EXCEPT !.projectiles[i] = moved]

\* (mutant) a projectile that hits stays in the registry and flies on
ProjectileBodyPiercing(st, i) ==
    LET p     == st.projectiles[i]
        moved == [p EXCEPT !.pos = @ + p.dir * ProjectileSpeed, !.life = @ + 1]
        j     == IndexOfEnemy(st.enemies, p.target, 1)
    IN  IF j # 0 /\ Distance(moved.pos, st.enemies[j].pos) < HitRadius
        THEN [st EXCEPT !.enemies[j].health = @ - moved.damage,
                        !.projectiles[i] = moved]
        ELSE IF moved.life > ProjectileLife
        THEN [st EXCEPT !.projectiles = RemoveAt(@, i)]
        ELSE [st EXCEPT !.projectiles[i] = moved]

\* the body of the loop of updateProjectiles for this.projectiles[i]
ProjectileBody(st, i) ==
    LET p     == st.projectiles[i]
        moved == [p EXCEPT !.pos = @ + p.dir * ProjectileSpeed, !.life = @ + 1]
        j     == IndexOfEnemy(st.enemies, p.target, 1)
    IN  IF j # 0 /\ Distance(moved.pos, st.enemies[j].pos) < HitRadius
        THEN [st EXCEPT !.enemies[j].health = @ - moved.damage,
                        !.projectiles = RemoveAt(@, i)]
        ELSE IF moved.life > ProjectileLife
        THEN [st EXCEPT !.projectiles = RemoveAt(@, i)]
        ELSE [st EXCEPT !.projectiles[i] = moved]

RECURSIVE ProjectileLoop(_, _)
ProjectileLoop(st, i) ==
    IF i < 1 \/ i > Len(st.projectiles) THEN st
    ELSE ProjectileLoop(ProjectileBody(st, i), i - 1)

\* updateProjectiles
updateProjectiles(st) == ProjectileLoop(st, Len(st.projectiles))

\* (mutant) a hit of an enemy projectile makes the tower reload
EnemyProjectileBodyStuns(st, i) ==
    LET p     == st.enemyProjectiles[i]
        moved == [p EXCEPT !.pos = @ + p.dir * EnemyProjectileSpeed,
                           !.life = @ + 1]
    IN  IF Distance(moved.pos, st.towers[p.target].pos) < HitRadius
        THEN [st EXCEPT !.enemyProjectiles = RemoveAt(@, i),
                        !.towers[p.target].sinceFired = 0]
        ELSE IF moved.life > EnemyProjectileLife
        THEN [st EXCEPT !.enemyProjectiles = RemoveAt(@, i)]
        ELSE [st EXCEPT !.enemyProjectiles[i] = moved]

\* (mutant) a hit of an enemy projectile destroys the tower it was aimed at
EnemyProjectileBodyDestroys(st, i) ==
    LET p     == st.enemyProjectiles[i]
        moved == [p EXCEPT !.pos = @ + p.dir * EnemyProjectileSpeed,
                           !.life = @ + 1]
    IN  IF /\ p.target <= Len(st.towers)
           /\ Distance(moved.pos, st.towers[p.target].pos) < HitRadius
        THEN [st EXCEPT !.enemyProjectiles = RemoveAt(@, i),
                        !.towers = RemoveAt(@, p.target)]
        ELSE IF moved.life > EnemyProjectileLife
        THEN [st EXCEPT !.enemyProjectiles = RemoveAt(@, i)]
        ELSE [st EXCEPT !.enemyProjectiles[i] = moved]

\* the body of the loop of updateEnemyProjectiles
EnemyProjectileBody(st, i) ==
    LET p     == st.enemyProjectiles[i]
        moved == [p EXCEPT !.pos = @ + p.dir * EnemyProjectileSpeed,
                           !.life = @ + 1]
    IN  IF Distance(moved.pos, st.towers[p.target].pos) < HitRadius
        THEN [st EXCEPT !.enemyProjectiles = RemoveAt(@, i)]
        ELSE IF moved.life > EnemyProjectileLife
        THEN [st EXCEPT !.enemyProjectiles = RemoveAt(@, i)]
        ELSE [st EXCEPT !.enemyProjectiles[i] = moved]

RECURSIVE EnemyProjectileLoop(_, _)
EnemyProjectileLoop(st, i) ==
    IF i < 1 \/ i > Len(st.enemyProjectiles) THEN st
    ELSE EnemyProjectileLoop(EnemyProjectileBody(st, i), i - 1)

\* updateEnemyProjectiles
updateEnemyProjectiles(st) == EnemyProjectileLoop(st, Len(st.enemyProjectiles))

(* ------------------------ asynchronous operations ---------------------- *)
\* an operation in flight: a model load of spawnEnemy ("spawn"), of
\* createTower or createColony ("place"), of createPlayer ("attack"), or
\* the fly-in animation of activatePlayerAttack ("anim")
SpawnOp(strong) == [op |-> "spawn", kind |-> "enemy", pos |-> 0, strong |-> strong]
PlaceOp(kind, position) == [op |-> "place", kind |-> kind, pos |-> position, strong |-> FALSE]
AttackOp == [op |-> "attack", kind |-> "playerAttack", pos |-> 0, strong |-> FALSE]
AnimOp == [op |-> "anim", kind |-> "playerAttack", pos |-> 0, strong |-> FALSE]

RECURSIVE SumCopies(_, _)
SumCopies(S, B) ==
    IF S = {} THEN 0
    ELSE LET r == CHOOSE x \in S : TRUE
         IN  CopiesIn(r, B) + SumCopies(S \ {r}, B)

\* the number of operations in flight of one sort
PendingOps(op) == SumCopies({r \in BagToSet(pending) : r.op = op}, pending)
PendingKind(K) == SumCopies({r \in BagToSet(pending) : r.kind \in K}, pending)

Started(r) == pending (+) SetToBag({r})
Ended(r) == pending (-) SetToBag({r})

(* ------------------------------ the tick ------------------------------ *)
\* (mutant) checkWaveComplete without the gameStarted test
WaveCompletesAnyTime(st) ==
    enemiesSpawned >= enemiesInWave /\ Len(st.enemies) = 0

\* (mutant) checkWaveComplete asking for more spawns than the wave holds
WaveCompletesOvershoot(st) ==
    gameStarted /\ enemiesSpawned > enemiesInWave /\ Len(st.enemies) = 0

\* checkWaveComplete, on the registries as the passes left them
WaveCompletes(st) ==
    gameStarted /\ enemiesSpawned >= enemiesInWave /\ Len(st.enemies) = 0

\* (mutant) the passes with the tower pass ahead of the enemy pass
PassesTowersFirst(dt) ==
    updateEnemyProjectiles(updateProjectiles(updateEnemies(updateTowers(
        [enemies |-> AgeEnemies(enemies, dt),
         towers |-> AgeTowers(towers, dt),
         projectiles |-> projectiles,
         enemyProjectiles |-> enemyProjectiles,
         gold |-> gold, lives |-> lives, score |-> score,
         reload |-> FALSE]))))

WaveBonus == 25 + (wave * 10)

\* the four passes of the registerBeforeRender callback, dt milliseconds
\* after the previous frame step
Passes(dt) ==
    updateEnemyProjectiles(updateProjectiles(updateTowers(updateEnemies(
        [enemies |-> AgeEnemies(enemies, dt),
         towers |-> AgeTowers(towers, dt),
         projectiles |-> projectiles,
         enemyProjectiles |-> enemyProjectiles,
         gold |-> gold, lives |-> lives, score |-> score,
         reload |-> FALSE]))))

\* spawnEnemies up to the await of the model load
SpawnRequested(roll) ==
    gameStarted /\ enemiesSpawned < enemiesInWave /\ roll

\* (mutant) the frame step without the pause test
TickIgnoringPause(dt, roll) ==
    /\ ~reloading
    /\ \E st \in {Passes(dt)} : \E done \in {WaveCompletes(st)} :
                /\ lastEvent' = IF isPaused THEN "frameSkipped" ELSE "frame"
                /\ enemies' = st.enemies
                /\ towers' = st.towers
                /\ projectiles' = st.projectiles
                /\ enemyProjectiles' = st.enemyProjectiles
                /\ lives' = st.lives
                /\ reloading' = st.reload
                /\ pending' = IF SpawnRequested(roll)
                              THEN Started(SpawnOp(wave > 1))
                              ELSE pending
                /\ gameStarted' = IF done THEN FALSE ELSE gameStarted
                /\ gold' = IF done THEN st.gold + WaveBonus ELSE st.gold
                /\ score' = IF done THEN st.score + WaveBonus * 5 ELSE st.score
                /\ UNCHANGED << wave, enemiesInWave, enemiesSpawned,
                                selectedTowerType, isPaused, colonies >>

\* one iteration of the render loop: the registerBeforeRender callback of
\* startGameLoop, which scene.render() calls unless the game is paused; the
\* clock (Date.now()) advances by dt also while paused.  roll is
\* Math.random() < 0.008
Tick(dt, roll) ==
    /\ ~reloading
    /\ IF isPaused
       THEN /\ lastEvent' = "frameSkipped"
            /\ towers' = AgeTowers(towers, dt)
            /\ enemies' = AgeEnemies(enemies, dt)
            /\ UNCHANGED << gold, lives, score, wave, enemiesInWave,
                            enemiesSpawned, selectedTowerType, gameStarted,
                            isPaused, projectiles,
                            enemyProjectiles, colonies, pending, reloading >>
       ELSE \E st \in {Passes(dt)} : \E done \in {WaveCompletes(st)} :
                /\ lastEvent' = "frame"
                /\ enemies' = st.enemies
                /\ towers' = st.towers
                /\ projectiles' = st.projectiles
                /\ enemyProjectiles' = st.enemyProjectiles
                /\ lives' = st.lives
                /\ reloading' = st.reload
                /\ pending' = IF SpawnRequested(roll)
                              THEN Started(SpawnOp(wave > 1))
                              ELSE pending
                /\ gameStarted' = IF done THEN FALSE ELSE gameStarted
                /\ gold' = IF done THEN st.gold + WaveBonus ELSE st.gold
                /\ score' = IF done THEN st.score + WaveBonus * 5 ELSE st.score
                /\ UNCHANGED << wave, enemiesInWave, enemiesSpawned,
                                selectedTowerType, isPaused, colonies >>

(* ------------------------------ commands ------------------------------ *)
\* togglePause
TogglePause ==
    /\ ~reloading
    /\ isPaused' = ~isPaused
    /\ lastEvent' = "togglePause"
    /\ UNCHANGED << gold, lives, score, wave, enemiesInWave, enemiesSpawned,
                    selectedTowerType, gameStarted, towers, enemies,
                    projectiles, enemyProjectiles, colonies, pending, reloading >>

\* (mutant) startNextWave without the pause test
startNextWaveIgnoringPause ==
    /\ lastEvent' = "waveStarted"
    /\ wave' = wave + 1
    /\ enemiesInWave' = Min(3 + (wave + 1) * 2, 25)
    /\ enemiesSpawned' = 0
    /\ gameStarted' = TRUE

\* (mutant) startNextWave without the cap of 25
startNextWaveNoCap ==
    IF isPaused
    THEN /\ lastEvent' = "startIgnored"
         /\ UNCHANGED << wave, enemiesInWave, enemiesSpawned, gameStarted >>
    ELSE /\ lastEvent' = "waveStarted"
         /\ wave' = wave + 1
         /\ enemiesInWave' = 3 + (wave + 1) * 2
         /\ enemiesSpawned' = 0
         /\ gameStarted' = TRUE

\* the global startNextWave
startNextWave ==
    IF isPaused
    THEN /\ lastEvent' = "startIgnored"
         /\ UNCHANGED << wave, enemiesInWave, enemiesSpawned, gameStarted >>
    ELSE /\ lastEvent' = "waveStarted"
         /\ wave' = wave + 1
         /\ enemiesInWave' = Min(3 + (wave + 1) * 2, 25)
         /\ enemiesSpawned' = 0
         /\ gameStarted' = TRUE

StartNextWaveCmd ==
    /\ ~reloading
    /\ startNextWave
    /\ UNCHANGED << gold, lives, score, selectedTowerType, isPaused, towers,
                    enemies, projectiles, enemyProjectiles, colonies, pending,
                    reloading >>

\* the position checks of placeTower
ValidPosition(position) ==
    /\ \A k \in 1..Len(towers) : ~(Distance(position, towers[k].pos) < TowerSpacing)
    /\ \A k \in 1..Len(colonies) : ~(Distance(position, colonies[k]) < ColonySpacing)
    /\ \A k \in DOMAIN path : ~(Distance(position, path[k]) < PathClearance)

\* placeTower passes its checks
Accepted(kind, position) ==
    /\ ~isPaused
    /\ gold >= towerTypes[kind].cost
    /\ ValidPosition(position)

\* (mutant) placeTower debiting at once, before the position checks
placeTowerDebitFirst(kind, position) ==
    IF isPaused
    THEN /\ lastEvent' = "placeIgnored"
         /\ UNCHANGED << gold, pending >>
    ELSE IF ~(gold >= towerTypes[kind].cost)
    THEN /\ lastEvent' = "InsufficientFunds"
         /\ UNCHANGED << gold, pending >>
    ELSE IF ~ValidPosition(position)
    THEN /\ lastEvent' = "InvalidPlacement"
         /\ gold' = gold - towerTypes[kind].cost
         /\ pending' = pending
    ELSE /\ lastEvent' = "placeRequested"
         /\ pending' = Started(PlaceOp(kind, position))
         /\ gold' = gold

\* placeTower up to its await, with this.selectedTowerType = kind
placeTower(kind, position) ==
    IF isPaused
    THEN /\ lastEvent' = "placeIgnored"
         /\ UNCHANGED << gold, pending >>
    ELSE IF ~(gold >= towerTypes[kind].cost)
    THEN /\ lastEvent' = "InsufficientFunds"
         /\ UNCHANGED << gold, pending >>
    ELSE IF ~ValidPosition(position)
    THEN /\ lastEvent' = "InvalidPlacement"
         /\ UNCHANGED << gold, pending >>
    ELSE IF kind = "colony"
    THEN /\ lastEvent' = "placeRequested"
         /\ pending' = Started(PlaceOp(kind, position))
         /\ gold' = gold
    ELSE IF kind = "playerAttack"
    THEN /\ lastEvent' = "attackPaid"
         /\ gold' = gold - towerTypes[kind].cost
         \* activatePlayerAttack up to its await
         /\ pending' = IF Len(enemies) = 0 THEN pending ELSE Started(AttackOp)
    ELSE /\ lastEvent' = "placeRequested"
         /\ pending' = Started(PlaceOp(kind, position))
         /\ gold' = gold

\* a click on the ground: placeTowerAtCrosshair, placeTower
PlaceTower(position) ==
    /\ ~reloading
    /\ placeTower(selectedTowerType, position)
    /\ UNCHANGED << lives, score, wave, enemiesInWave, enemiesSpawned,
                    selectedTowerType, gameStarted, isPaused, towers, enemies,
                    projectiles, enemyProjectiles, colonies, reloading >>

\* the global selectTowerType and the method: selecting the player attack
\* places it at the crosshair at once (hit: the ray meets the ground)
SelectTowerType(kind, hit, position) ==
    /\ ~reloading
    /\ IF isPaused
       THEN /\ lastEvent' = "selectIgnored"
            /\ UNCHANGED << selectedTowerType, gold, pending >>
       ELSE /\ selectedTowerType' = kind
            /\ IF kind = "playerAttack" /\ hit
               THEN placeTower(kind, position)
               ELSE /\ lastEvent' = "selected"
                    /\ UNCHANGED << gold, pending >>
    /\ UNCHANGED << lives, score, wave, enemiesInWave, enemiesSpawned,
                    gameStarted, isPaused, towers, enemies,
                    projectiles, enemyProjectiles, colonies, reloading >>

(* ------------------------- load completions --------------------------- *)
\* the ids that may still be referred to: an enemy is an object of the
\* code, and a projectile or a tower may keep a reference to a removed one
UsedIds ==
    {enemies[k].id : k \in 1..Len(enemies)}
        \cup {projectiles[k].target : k \in 1..Len(projectiles)}
        \cup {towers[k].target : k \in 1..Len(towers)}

FreshId == CHOOSE n \in 1..(Cardinality(UsedIds) + 1) : n \notin UsedIds

\* the enemyData of spawnEnemy: the base values were chosen before the
\* await, this.wave is read after it
NewEnemy(strong) ==
    [id |-> FreshId, pos |-> path[0],
     health |-> BaseHealth(strong) + (wave * 20),
     maxHealth |-> BaseHealth(strong) + (wave * 20),
     speed |-> BaseSpeed(strong) + (wave * 4),
     pathIndex |-> 0, pathProgress |-> 0,
     reward |-> BaseReward(strong) + wave * 2,
     sinceShot |-> SinceCap, target |-> 0]

\* (mutant) a spawn load that resolves during a pause is dropped
spawnEnemyLoadedUnlessPaused(r) ==
    IF isPaused
    THEN UNCHANGED << enemies, enemiesSpawned >>
    ELSE /\ enemies' = Append(enemies, NewEnemy(r.strong))
         /\ enemiesSpawned' = enemiesSpawned + 1

\* spawnEnemy after its await: the model load resolved
spawnEnemyLoaded(r) ==
    /\ enemies' = Append(enemies, NewEnemy(r.strong))
    /\ enemiesSpawned' = enemiesSpawned + 1

SpawnLoaded ==
    /\ ~reloading
    /\ \E r \in BagToSet(pending) :
          /\ r.op = "spawn"
          /\ pending' = Ended(r)
          /\ spawnEnemyLoaded(r)
    /\ lastEvent' = "spawned"
    /\ UNCHANGED << gold, lives, score, wave, enemiesInWave, selectedTowerType,
                    gameStarted, isPaused, towers, projectiles,
                    enemyProjectiles, colonies, reloading >>

\* (mutant) a failed spawn counted as spawned
spawnEnemyFailedCounted(r) ==
    /\ enemiesSpawned' = enemiesSpawned + 1
    /\ enemies' = enemies

\* spawnEnemy when loadModel rejects: the await throws
spawnEnemyFailed(r) ==
    UNCHANGED << enemies, enemiesSpawned >>

SpawnLoadFailed ==
    /\ ~reloading
    /\ \E r \in BagToSet(pending) :
          /\ r.op = "spawn"
          /\ pending' = Ended(r)
          /\ spawnEnemyFailed(r)
    /\ lastEvent' = "spawnLoadFailed"
    /\ UNCHANGED << gold, lives, score, wave, enemiesInWave, selectedTowerType,
                    gameStarted, isPaused, towers, projectiles,
                    enemyProjectiles, colonies, reloading >>

\* the tower object of createTower
NewTower(r) == [pos |-> r.pos, type |-> r.kind, sinceFired |-> SinceCap, target |-> 0]

\* (mutant) the debit read from the type selected at completion
placeTowerLoadedSelectedCost(r) ==
    IF r.kind = "colony"
    THEN /\ colonies' = Append(colonies, r.pos)
         /\ gold' = gold - towerTypes[selectedTowerType].cost
         /\ towers' = towers
    ELSE /\ towers' = Append(towers, NewTower(r))
         /\ gold' = gold - towerTypes[selectedTowerType].cost
         /\ colonies' = colonies

\* placeTower after its await: createTower or createColony resolved
placeTowerLoaded(r) ==
    IF r.kind = "colony"
    THEN /\ colonies' = Append(colonies, r.pos)
         /\ gold' = gold - towerTypes[r.kind].cost
         /\ towers' = towers
    ELSE /\ towers' = Append(towers, NewTower(r))
         /\ gold' = gold - towerTypes[r.kind].cost
         /\ colonies' = colonies

PlaceLoaded ==
    /\ ~reloading
    /\ \E r \in BagToSet(pending) :
          /\ r.op = "place"
          /\ pending' = Ended(r)
          /\ placeTowerLoaded(r)
    /\ lastEvent' = "built"
    /\ UNCHANGED << lives, score, wave, enemiesInWave, enemiesSpawned,
                    selectedTowerType, gameStarted, isPaused, enemies,
                    projectiles, enemyProjectiles, reloading >>

\* (mutant) a failed placement debited all the same
placeTowerFailedDebited(r) ==
    /\ gold' = gold - towerTypes[r.kind].cost
    /\ UNCHANGED << towers, colonies >>

\* placeTower when loadModel rejects: the await throws
placeTowerFailed(r) ==
    UNCHANGED << gold, towers, colonies >>

PlaceLoadFailed ==
    /\ ~reloading
    /\ \E r \in BagToSet(pending) :
          /\ r.op = "place"
          /\ pending' = Ended(r)
          /\ placeTowerFailed(r)
    /\ lastEvent' = "placeLoadFailed"
    /\ UNCHANGED << lives, score, wave, enemiesInWave, enemiesSpawned,
                    selectedTowerType, gameStarted, isPaused, enemies,
                    projectiles, enemyProjectiles, reloading >>

\* activatePlayerAttack after its await: createPlayer resolved and the
\* fly-in animation begins
AttackLoaded ==
    /\ ~reloading
    /\ PendingOps("attack") > 0
    /\ pending' = (pending (-) SetToBag({AttackOp})) (+) SetToBag({AnimOp})
    /\ lastEvent' = "attackLoaded"
    /\ UNCHANGED << gold, lives, score, wave, enemiesInWave, enemiesSpawned,
                    selectedTowerType, gameStarted, isPaused, towers, enemies,
                    projectiles, enemyProjectiles, colonies, reloading >>

\* (mutant) the callback sparing the enemies at the last waypoint
destroyAllEnemiesShortOfEnd ==
    /\ enemies' = SelectSeq(enemies, LAMBDA e : e.pathIndex >= PathLen - 1)
    /\ gold' = gold + SumReward(SelectSeq(enemies,
                           LAMBDA e : e.pathIndex < PathLen - 1))
    /\ score' = score + 15 * SumReward(SelectSeq(enemies,
                           LAMBDA e : e.pathIndex < PathLen - 1))

\* the callback of beginAnimation: destroy all enemies
destroyAllEnemies ==
    /\ enemies' = << >>
    /\ gold' = gold + SumReward(enemies)
    /\ score' = score + 15 * SumReward(enemies)

\* the fly-in animation ends; scene.render() advances animations, and it
\* is not called while the game is paused
AnimationEnd ==
    /\ ~reloading
    /\ ~isPaused
    /\ PendingOps("anim") > 0
    /\ pending' = pending (-) SetToBag({AnimOp})
    /\ destroyAllEnemies
    /\ lastEvent' = "attackDone"
    /\ UNCHANGED << lives, wave, enemiesInWave, enemiesSpawned,
                    selectedTowerType, gameStarted, isPaused, towers,
                    projectiles, enemyProjectiles, colonies, reloading >>

\* location.reload(): the page is loaded again and the constructor runs
Reload ==
    /\ reloading
    /\ gold' = InitGold
    /\ lives' = InitLives
    /\ score' = 0
    /\ wave' = 0
    /\ enemiesInWave' = InitEnemiesInWave
    /\ enemiesSpawned' = 0
    /\ selectedTowerType' = "basic"
    /\ gameStarted' = FALSE
    /\ isPaused' = FALSE
    /\ towers' = << >>
    /\ enemies' = << >>
    /\ projectiles' = << >>
    /\ enemyProjectiles' = << >>
    /\ colonies' = << >>
    /\ pending' = EmptyBag
    /\ reloading' = FALSE
    /\ lastEvent' = "init"

(* ------------------- the environment within the bounds ----------------- *)
\* a frame step; the model keeps the enemies and the spawn loads in flight
\* within the bounds
SpawnWithinBounds(roll) ==
    SpawnRequested(roll) /\ ~isPaused =>
        /\ PendingOps("spawn") < MaxPendingSpawn
        /\ Len(enemies) + PendingOps("spawn") < MaxEnemies

Frame ==
    \E dt \in Dts, roll \in BOOLEAN : SpawnWithinBounds(roll) /\ Tick(dt, roll)

\* a frame step in which the spawn chance fails
QuietFrame == \E dt \in Dts : Tick(dt, FALSE)

StartNextWave == wave < MaxWave /\ StartNextWaveCmd

StartManyWaves == wave < MaxWaveCmd /\ StartNextWaveCmd

\* the model keeps the registries and the loads in flight within the bounds
WithinBounds(kind, position) ==
    Accepted(kind, position) =>
        IF kind = "playerAttack"
        THEN PendingOps("attack") + PendingOps("anim") = 0
        ELSE /\ PendingOps("place") < MaxPendingPlace
             /\ kind = "colony" =>
                  Len(colonies) + PendingKind({"colony"}) < MaxColonies
             /\ kind \in TowerKinds =>
                  Len(towers) + PendingKind(TowerKinds) < MaxTowers

Place ==
    \E position \in PlaceXs :
        WithinBounds(selectedTowerType, position) /\ PlaceTower(position)

Select ==
    \/ \E kind \in Kinds : SelectTowerType(kind, FALSE, 0)
    \/ \E position \in PlaceXs :
          /\ WithinBounds("playerAttack", position)
          /\ SelectTowerType("playerAttack", TRUE, position)

\* the environment of SpecCombat: the player selects and places towers
\* before the first wave, then starts the waves
SelectTower ==
    wave = 0 /\ \E kind \in TowerKinds : SelectTowerType(kind, FALSE, 0)

PlaceCombat ==
    /\ wave = 0
    /\ \E position \in CombatXs :
          WithinBounds(selectedTowerType, position) /\ PlaceTower(position)

StartCombatWave ==
    /\ wave < MaxWaveCombat
    /\ PendingOps("place") = 0
    /\ StartNextWaveCmd

CombatFrame ==
    \E dt \in CombatDts, roll \in BOOLEAN :
        /\ SpawnRequested(roll) =>
              enemiesSpawned + PendingOps("spawn") < MaxSpawnedCombat
        /\ Tick(dt, roll)

\* a frame step of SpecPause
PauseFrame ==
    \E dt \in CombatDts, roll \in BOOLEAN :
        /\ SpawnRequested(roll) =>
              enemiesSpawned + PendingOps("spawn") < MaxSpawnedPause
        /\ Tick(dt, roll)

\* the environment of SpecAttack, a campaign: the player starts a wave
\* as soon as the previous one is complete and all towers stand; a frame step
\* finds the spawn chance when no enemy is alive, or when the fly-in
\* animation runs and there is room for another enemy, and each enemy or
\* player model loads before the next frame step; the player builds laser
\* towers and triggers the player attack when it is affordable
CampaignSelect ==
    wave = 0 /\ SelectTowerType("laser", FALSE, 0)

StartCampaignWave ==
    /\ wave < MaxWaveAttack
    /\ ~gameStarted
    /\ PendingOps("place") = 0
    /\ StartNextWaveCmd

CampaignFrame ==
    /\ PendingOps("spawn") + PendingOps("attack") = 0
    /\ gameStarted \/ wave = 0 \/ wave = MaxWaveAttack
    /\ \E dt \in CombatDts :
          Tick(dt, \/ Len(enemies) = 0
                   \/ PendingOps("anim") > 0 /\ Len(enemies) < MaxEnemies)

CampaignAttack ==
    /\ gold >= towerTypes["playerAttack"].cost
    /\ PendingOps("attack") + PendingOps("anim") = 0
    /\ SelectTowerType("playerAttack", TRUE, NearSite + ColonySpacing)

\* the environment of SpecRange: as in SpecCombat, with ground points
\* that put waypoints at and beyond the range of a tower
PlaceRange ==
    /\ wave = 0
    /\ \E position \in RangeXs :
          WithinBounds(selectedTowerType, position) /\ PlaceTower(position)

\* the environment of SpecReach: as in SpecCombat, with ground points at
\* and around the range of the enemies
PlaceReach ==
    /\ wave = 0
    /\ \E position \in ReachXs :
          WithinBounds(selectedTowerType, position) /\ PlaceTower(position)

\* the environment of SpecFair: the first waves, frame steps at one pace
StartFairWave == wave < MaxWaveFair /\ StartNextWaveCmd

FairFrame ==
    \E dt \in CombatDts, roll \in BOOLEAN :
        SpawnWithinBounds(roll) /\ Tick(dt, roll)

\* a frame step in which the spawn chance succeeds and an enemy is requested
SpawningFrame ==
    \E dt \in CombatDts :
        /\ SpawnRequested(TRUE)
        /\ SpawnWithinBounds(TRUE)
        /\ Tick(dt, TRUE)

(* --------------------------- specifications --------------------------- *)
\* placements: the commands of the player and the model loads of the
\* placements, before the first wave
NextPlace ==
    \/ QuietFrame
    \/ TogglePause
    \/ Select
    \/ Place
    \/ PlaceLoaded
    \/ PlaceLoadFailed

SpecPlace == Init /\ [][NextPlace]_vars

\* waves: the wave director, the spawns and their model loads and the
\* enemies walking the path, with no tower placed, until the lives run out
\* and the page reloads
NextWave ==
    \/ Frame
    \/ StartNextWave
    \/ SpawnLoaded
    \/ SpawnLoadFailed
    \/ Reload

SpecWave == Init /\ [][NextWave]_vars

\* the wave director under the commands alone, up to wave MaxWaveCmd, while
\* the spawn chance fails
NextDirector ==
    \/ QuietFrame
    \/ TogglePause
    \/ Select
    \/ StartManyWaves

SpecDirector == Init /\ [][NextDirector]_vars

\* combat: towers placed before the first wave, then enemies spawning,
\* walking, being shot at and shooting back
NextCombat ==
    \/ CombatFrame
    \/ SelectTower
    \/ PlaceCombat
    \/ PlaceLoaded
    \/ StartCombatWave
    \/ SpawnLoaded

SpecCombat == Init /\ [][NextCombat]_vars

\* combat with pauses
NextPause ==
    \/ PauseFrame
    \/ TogglePause
    \/ SelectTower
    \/ PlaceCombat
    \/ PlaceLoaded
    \/ StartCombatWave
    \/ SpawnLoaded

SpecPause == Init /\ [][NextPause]_vars

\* a campaign up to the player attack
NextAttack ==
    \/ CampaignFrame
    \/ CampaignSelect
    \/ PlaceCombat
    \/ PlaceLoaded
    \/ StartCampaignWave
    \/ SpawnLoaded
    \/ CampaignAttack
    \/ AttackLoaded
    \/ AnimationEnd

SpecAttack == Init /\ [][NextAttack]_vars

\* combat around the edge of the range of the towers
NextRange ==
    \/ CombatFrame
    \/ SelectTower
    \/ PlaceRange
    \/ PlaceLoaded
    \/ StartCombatWave
    \/ SpawnLoaded

SpecRange == Init /\ [][NextRange]_vars

\* combat around the edge of the range of the enemies
NextReach ==
    \/ CombatFrame
    \/ SelectTower
    \/ PlaceReach
    \/ PlaceLoaded
    \/ StartCombatWave
    \/ SpawnLoaded

SpecReach == Init /\ [][NextReach]_vars

\* the first waves with spawn loads that may fail
NextFair ==
    \/ FairFrame
    \/ StartFairWave
    \/ SpawnLoaded
    \/ SpawnLoadFailed

\* under fair scheduling: the render loop keeps calling the frame step, the
\* spawn chance of 0.008 per frame step succeeds again and again while a
\* spawn is due, and a model load that is attempted again and again
\* resolves again and again
SpecFair ==
    /\ Init /\ [][NextFair]_vars
    /\ WF_vars(FairFrame)
    /\ SF_vars(SpawningFrame)
    /\ SF_vars(SpawnLoaded)

(* ------------------------------- claims ------------------------------- *)
\* C1: gold >= 0 in every reachable state, also while placements that
\* passed their balance check await their model loads.  (SpecPlace)
C1_GoldNonNegative == gold >= 0

\* C2: lives >= 0 in every reachable state, also when several enemies are
\* at the last waypoint in one frame step.  (SpecWave)
C2_LivesNonNegative == lives >= 0

\* the reasons of C3 for a rejection, in the numbers of the claim
C3_TooClose(position) ==
    \/ \E k \in 1..Len(towers) : Abs(position - towers[k].pos) < 6 * Scale
    \/ \E k \in 1..Len(colonies) : Abs(position - colonies[k]) < 10 * Scale
    \/ \E k \in DOMAIN path : Abs(position - path[k]) < 4 * Scale

C3_Rejections == {"InsufficientFunds", "InvalidPlacement"}

\* C3: a place command issued while not paused with gold below the cost of
\* the selected kind, or at a position within 6 of a tower, 10 of a colony
\* or 4 of a waypoint, is rejected, and a rejected place command leaves
\* gold, the towers, the colonies, the enemies and the loads in flight as
\* they were.  (SpecPlace)
C3_RejectedPlacementChangesNothing ==
    [][ /\ \A position \in PlaceXs :
              ( /\ PlaceTower(position)
                /\ ~isPaused
                /\ \/ gold < towerTypes[selectedTowerType].cost
                   \/ C3_TooClose(position) )
              => lastEvent' \in C3_Rejections
        /\ lastEvent' \in C3_Rejections =>
              /\ gold' = gold
              /\ Len(towers') = Len(towers)
              /\ Len(colonies') = Len(colonies)
              /\ Len(enemies') = Len(enemies)
              /\ pending' = pending ]_vars

\* a placement was rejected for its position, with a tower and a colony
\* on the ground and enough gold for the selected kind
C3_Witness ==
    /\ lastEvent = "InvalidPlacement"
    /\ Len(towers) > 0
    /\ Len(colonies) > 0
    /\ gold >= towerTypes[selectedTowerType].cost

\* C4: startNextWave called while a wave is active leaves the wave number,
\* enemies-in-wave and the spawned counter unchanged.  (SpecWave)
C4_StartWhileActiveIsNoOp ==
    [][ (gameStarted /\ lastEvent' \in {"waveStarted", "startIgnored"})
        => UNCHANGED << wave, enemiesInWave, enemiesSpawned >> ]_vars

\* C5: enemiesSpawned <= enemiesInWave in every reachable state, also with
\* several spawn loads in flight.  (SpecWave)
C5_SpawnedWithinWave == enemiesSpawned <= enemiesInWave

\* C6: a startNextWave command issued while not paused is accepted, and an
\* accepted command adds exactly 1 to the wave number, sets enemies-in-wave
\* to min(3 + 2 * wave, 25) for the new wave number (5 for wave 1), resets
\* the spawned counter to 0 and makes the director WaveActive.
\* (SpecDirector)
C6_StartNextWaveEffect ==
    [][ /\ (StartNextWaveCmd /\ ~isPaused) => lastEvent' = "waveStarted"
        /\ lastEvent' = "waveStarted" =>
              /\ wave' = wave + 1
              /\ enemiesInWave' =
                    (IF 3 + 2 * wave' <= 25 THEN 3 + 2 * wave' ELSE 25)
              /\ wave' = 1 => enemiesInWave' = 5
              /\ enemiesSpawned' = 0
              /\ gameStarted' ]_vars

\* wave 1 was started from Idle
C6_Witness ==
    /\ lastEvent = "waveStarted"
    /\ wave = 1
    /\ enemiesInWave = 5
    /\ enemiesSpawned = 0
    /\ gameStarted

\* the rewards the enemy pass of the next frame step credits: those of the
\* enemies short of the last waypoint whose health is not positive
KillRewards ==
    SumReward(SelectSeq(enemies,
        LAMBDA e : e.pathIndex < PathLen - 1 /\ e.health <= 0))

\* C7: a frame step completes the wave exactly when the director is
\* WaveActive, the spawned counter has reached enemies-in-wave and no enemy
\* is alive after the passes; it then adds 25 + 10 * wave to gold and five
\* times that to score and makes the director Idle; the director becomes
\* WaveActive again only by an accepted startNextWave, so the bonus of a
\* wave is credited at most once and never before the first wave.
\* (SpecWave)
C7_WaveCompleteExactlyOnce ==
    [][ /\ lastEvent' = "frame" =>
              LET fires == gameStarted /\ ~gameStarted'
                  bonus == IF fires THEN 25 + 10 * wave ELSE 0
              IN  /\ fires <=> ( /\ gameStarted
                                 /\ enemiesSpawned >= enemiesInWave
                                 /\ Len(enemies') = 0 )
                  /\ gameStarted' => gameStarted
                  /\ gold' = gold + KillRewards + bonus
                  /\ score' = score + 15 * KillRewards + 5 * bonus
                  /\ fires => wave >= 1
        /\ (~gameStarted /\ gameStarted') => lastEvent' = "waveStarted" ]_vars

\* wave 1 has completed: Idle again, with its bonus of 35 credited once
C7_Witness ==
    /\ lastEvent = "frame"
    /\ wave = 1
    /\ ~gameStarted
    /\ enemiesSpawned >= enemiesInWave
    /\ gold = InitGold + 35
    /\ score = 5 * 35

\* C8: when the model load of a spawn fails, no enemy is inserted, the
\* spawned counter is not incremented, and gold, lives, score and the wave
\* number are unchanged.  (SpecWave)
C8_FailedSpawnAbandoned ==
    [][ lastEvent' = "spawnLoadFailed" =>
          UNCHANGED << enemies, enemiesSpawned, gold, lives, score, wave >> ]_vars

\* a spawn load has failed in an active wave that still has enemies to spawn
C8_Witness ==
    /\ lastEvent = "spawnLoadFailed"
    /\ gameStarted
    /\ enemiesSpawned < enemiesInWave

\* C9: when the model load of a tower or colony placement fails, no tower
\* and no colony is inserted and gold is not debited.  (SpecPlace)
C9_FailedPlacementAbandoned ==
    [][ lastEvent' = "placeLoadFailed" =>
          UNCHANGED << towers, colonies, gold >> ]_vars

\* the load of a placement has failed while another placement is still
\* in flight
C9_Witness ==
    /\ lastEvent = "placeLoadFailed"
    /\ PendingOps("place") > 0
    /\ gold = InitGold

\* the enemies that stand at the last waypoint
C10_AtEnd == SelectSeq(enemies, LAMBDA e : e.pathIndex >= PathLen - 1)

\* C10: a frame step removes every enemy that stands at the last waypoint
\* and takes exactly one life for each of them, whatever its health, and
\* credits nothing for it: gold and score grow only by the rewards of the
\* enemies killed short of the last waypoint and by the wave bonus; no
\* other step takes a life.  (SpecCombat)
C10_EndOfPathCostsOneLife ==
    [][ /\ lastEvent' = "frame" =>
              LET bonus == IF gameStarted /\ ~gameStarted'
                           THEN 25 + 10 * wave ELSE 0
              IN  /\ lives' = lives - Len(C10_AtEnd)
                  /\ \A i \in 1..Len(C10_AtEnd) :
                        \A j \in 1..Len(enemies') :
                            enemies'[j].id # C10_AtEnd[i].id
                  /\ gold' = gold + KillRewards + bonus
                  /\ score' = score + 15 * KillRewards + 5 * bonus
        /\ lastEvent' # "frame" => lives' = lives ]_vars

\* a life has been lost, and an enemy that a tower has brought to health
\* <= 0 stands at the last waypoint
C10_Witness ==
    /\ lastEvent = "frame"
    /\ lives < InitLives
    /\ \E i \in 1..Len(enemies) :
          enemies[i].pathIndex >= PathLen - 1 /\ enemies[i].health <= 0

\* C11: a frame step in which lives reaches 0 stops there: no further life
\* is lost, no projectile is updated, no spawn is requested and the wave
\* does not complete in the remainder of that step; and once lives is 0
\* or less, only the reset changes the state.  (SpecWave)
C11_GameOverHalts ==
    [][ /\ (lives > 0 /\ lives' <= 0) =>
              /\ lives' = 0
              /\ pending' = pending
              /\ gameStarted' = gameStarted
              /\ projectiles' = projectiles
              /\ enemyProjectiles' = enemyProjectiles
        /\ lives <= 0 => lastEvent' = "init" ]_vars

\* the registry es differs from fs at most in the elapsed times
C12_SameButClock(es, fs) ==
    /\ Len(es) = Len(fs)
    /\ \A i \in 1..Len(es) :
          \E x \in {fs[i]} :
              IF "sinceShot" \in DOMAIN x
              THEN es[i] = [x EXCEPT !.sinceShot = es[i].sinceShot]
              ELSE es[i] = [x EXCEPT !.sinceFired = es[i].sinceFired]

\* C12: a frame step that starts with the pause flag set runs none of the
\* passes: enemy positions and path indices, targets, both projectile sets
\* and their ages, the spawned counter, gold, lives, score and the wave
\* state are unchanged; no last-fire time is reset (only the clock moves
\* on).  (SpecPause)
C12_PausedTickSkipped ==
    [][ /\ isPaused => lastEvent' # "frame"
        /\ lastEvent' = "frameSkipped" =>
              /\ isPaused
              /\ C12_SameButClock(enemies, enemies')
              /\ C12_SameButClock(towers, towers')
              /\ \A i \in 1..Len(enemies) :
                    enemies'[i].sinceShot >= enemies[i].sinceShot
              /\ \A k \in 1..Len(towers) :
                    towers'[k].sinceFired >= towers[k].sinceFired
              /\ UNCHANGED << projectiles, enemyProjectiles, enemiesSpawned,
                              gold, lives, score, wave, enemiesInWave,
                              gameStarted, pending >> ]_vars

\* a frame step has been skipped with an enemy walking, a tower aiming at
\* it and a projectile in flight
C12_Witness ==
    /\ lastEvent = "frameSkipped"
    /\ isPaused
    /\ gameStarted
    /\ Len(enemies) > 0
    /\ Len(projectiles) > 0
    /\ \E k \in 1..Len(towers) : towers[k].target # 0

\* C13: a model load that completes during a pause takes effect at once:
\* the spawn inserts its enemy at the start of the path and counts it, the
\* placement inserts its tower and debits its cost; and every unpaused
\* frame step moves each living enemy short of the last waypoint and makes
\* each tower with an enemy in range aim.  (SpecPause)
C13_LoadsCompleteWhilePaused ==
    [][ /\ (isPaused /\ lastEvent' = "spawned") =>
              /\ Len(enemies') = Len(enemies) + 1
              /\ enemies'[Len(enemies')].pathIndex = 0
              /\ enemies'[Len(enemies')].pathProgress = 0
              /\ enemiesSpawned' = enemiesSpawned + 1
        /\ (isPaused /\ lastEvent' = "built") =>
              /\ Len(towers') = Len(towers) + 1
              /\ gold' = gold - towerTypes[towers'[Len(towers')].type].cost
        /\ lastEvent' = "frame" =>
              /\ \A i \in 1..Len(enemies) :
                    (enemies[i].pathIndex < PathLen - 1 /\ enemies[i].health > 0)
                    => \E j \in 1..Len(enemies') :
                          /\ enemies'[j].id = enemies[i].id
                          /\ << enemies'[j].pathIndex, enemies'[j].pathProgress >>
                                # << enemies[i].pathIndex, enemies[i].pathProgress >>
              /\ \A k \in 1..Len(towers') :
                    (\E j \in 1..Len(enemies') :
                        Distance(towers'[k].pos, enemies'[j].pos)
                            < towerTypes[towers'[k].type].range * Scale)
                    => towers'[k].target # 0 ]_vars

\* the load of an enemy has completed during a pause, with a tower built
\* and the wave running
C13_Witness ==
    /\ lastEvent = "spawned"
    /\ isPaused
    /\ gameStarted
    /\ Len(enemies) = 1
    /\ enemiesSpawned = 1
    /\ Len(towers) > 0

\* the costs of the tower kinds
C14_Cost(kind) ==
    CASE kind = "basic" -> 40 [] kind = "missile" -> 85 [] kind = "laser" -> 130

\* C14: an accepted place command for a tower kind changes neither the
\* towers nor gold; it only starts a model load.  The completion of that
\* load inserts exactly one tower of the requested kind at the requested
\* point and debits exactly the cost of that kind (40, 85 or 130); the
\* towers change at no other step.  (SpecPlace)
C14_TowerBuiltOnLoad ==
    [][ /\ lastEvent' = "placeRequested" =>
              /\ UNCHANGED << towers, colonies, gold >>
              /\ \E position \in PlaceXs :
                    pending' = pending (+)
                        SetToBag({[op |-> "place", kind |-> selectedTowerType,
                                   pos |-> position, strong |-> FALSE]})
        /\ towers' # towers =>
              /\ lastEvent' = "built"
              /\ \E r \in BagToSet(pending) :
                    /\ r.op = "place"
                    /\ r.kind \in {"basic", "missile", "laser"}
                    /\ pending' = pending (-) SetToBag({r})
                    /\ Len(towers') = Len(towers) + 1
                    /\ SubSeq(towers', 1, Len(towers)) = towers
                    /\ towers'[Len(towers')].type = r.kind
                    /\ towers'[Len(towers')].pos = r.pos
                    /\ gold' = gold - C14_Cost(r.kind)
                    /\ colonies' = colonies ]_vars

\* two towers of different kinds have been built and paid for, the second
\* while another kind was selected
C14_Witness ==
    /\ lastEvent = "built"
    /\ Len(towers) = 2
    /\ towers[1].type # towers[2].type
    /\ selectedTowerType # towers[2].type
    /\ gold = InitGold - C14_Cost(towers[1].type) - C14_Cost(towers[2].type)

\* the sum of the damage of the towers that fired these projectiles (or of
\* these towers)
RECURSIVE C15_Damage(_)
C15_Damage(ps) ==
    IF ps = << >> THEN 0
    ELSE towerTypes[Head(ps).type].damage + C15_Damage(Tail(ps))

\* the projectiles in flight that aim at enemy id and whose next position
\* is within the hit radius of the point at
C15_Hits(id, at) ==
    SelectSeq(projectiles,
        LAMBDA p : /\ p.target = id
                   /\ Distance(p.pos + p.dir * ProjectileSpeed, at) < HitRadius)

\* the towers that fire at enemy id in this step from within one projectile
\* move of the hit radius
C15_PointBlank(id, at) ==
    SelectSeq(towers',
        LAMBDA t : /\ t.target = id
                   /\ t.sinceFired = 0
                   /\ Distance(t.pos + Normalize(at - t.pos) * ProjectileSpeed, at)
                        < HitRadius)

\* C15: in a frame step each enemy that stays loses exactly the damage of
\* the towers whose projectiles hit it, and nothing else changes a health;
\* an enemy short of the last waypoint whose health is <= 0 is removed by
\* the next frame step, which credits its reward to gold and 15 times its
\* reward to score, and a living enemy short of the last waypoint stays.
\* A hit of the basic tower takes 25: from health 60 that leaves 35 > 0.
\* (SpecCombat)
C15_HitAndKill ==
    [][ /\ lastEvent' = "frame" =>
              /\ \A j \in 1..Len(enemies') :
                    \E i \in 1..Len(enemies) :
                        /\ enemies[i].id = enemies'[j].id
                        /\ enemies'[j].health =
                              enemies[i].health
                              - C15_Damage(C15_Hits(enemies[i].id, enemies'[j].pos))
                              - C15_Damage(C15_PointBlank(enemies[i].id,
                                                          enemies'[j].pos))
              /\ \A i \in 1..Len(enemies) :
                    enemies[i].pathIndex < PathLen - 1 =>
                        ( enemies[i].health <= 0
                          <=> \A j \in 1..Len(enemies') :
                                  enemies'[j].id # enemies[i].id )
              /\ gold' = gold + KillRewards
                          + (IF gameStarted /\ ~gameStarted'
                             THEN 25 + 10 * wave ELSE 0)
              /\ score' = score + 15 * KillRewards
                           + (IF gameStarted /\ ~gameStarted'
                              THEN 5 * (25 + 10 * wave) ELSE 0)
        /\ lastEvent' # "frame" =>
              \A i \in 1..Len(enemies) :
                  /\ i <= Len(enemies')
                  /\ enemies'[i].health = enemies[i].health
        /\ towerTypes["basic"].damage = 25 /\ 60 - 25 = 35 ]_vars

\* an enemy has been killed and paid for, and another one has taken one
\* hit of a basic tower and is alive
C15_Witness ==
    /\ lastEvent = "frame"
    /\ score = 15 * 17
    /\ \E i \in 1..Len(enemies) :
          /\ enemies[i].health = enemies[i].maxHealth - 25
          /\ enemies[i].health > 0

\* the number of projectiles of ps of age k whose target is not among ids
C16_Lost(ps, ids, k) ==
    Len(SelectSeq(ps, LAMBDA p : p.life = k /\ p.target \notin ids))

\* C16: no projectile in the registry is older than 100 updates (150 for
\* an enemy's projectile); a tower's projectile whose target is gone is
\* kept, one update older, by each of its first 100 updates, and the 101st
\* removes it; a frame step in which every projectile in flight has lost
\* its target and no tower fires changes no enemy's health.  (SpecCombat)
C16_ExpiryAt101 ==
    [][ /\ \A i \in 1..Len(projectiles') : projectiles'[i].life <= 100
        /\ \A i \in 1..Len(enemyProjectiles') : enemyProjectiles'[i].life <= 150
        /\ lastEvent' = "frame" =>
              LET ids == {enemies'[j].id : j \in 1..Len(enemies')} IN
              /\ \A k \in 0..99 :
                    C16_Lost(projectiles', ids, k + 1) = C16_Lost(projectiles, ids, k)
              /\ ( /\ \A i \in 1..Len(projectiles) : projectiles[i].target \notin ids
                    /\ \A k \in 1..Len(towers') : towers'[k].sinceFired # 0 )
                  => \A j \in 1..Len(enemies') :
                        \E i \in 1..Len(enemies) :
                            /\ enemies[i].id = enemies'[j].id
                            /\ enemies[i].health = enemies'[j].health ]_vars

\* a projectile whose target is gone has had its 100th update while
\* another enemy walks the path
C16_Witness ==
    /\ lastEvent = "frame"
    /\ Len(enemies) > 0
    /\ \E i \in 1..Len(projectiles) :
          /\ projectiles[i].life = 100
          /\ \A j \in 1..Len(enemies) : enemies[j].id # projectiles[i].target

\* C17: targets are not exclusive: after a frame step with a single enemy
\* in the registry, every tower that has it within range holds it as its
\* target, however many other towers do.  (SpecCombat)
C17_NoTargetExclusivity ==
    (lastEvent = "frame" /\ Len(enemies) = 1) =>
        \A k \in 1..Len(towers) :
            Distance(towers[k].pos, enemies[1].pos)
                < towerTypes[towers[k].type].range * Scale
            => towers[k].target = enemies[1].id

\* two towers at different points hold the lone enemy as their target
\* after the same frame step, and both have fired at it in that step
C17_Witness ==
    /\ lastEvent = "frame"
    /\ Len(enemies) = 1
    /\ Len(towers) = 2
    /\ towers[1].pos # towers[2].pos
    /\ towers[1].target = enemies[1].id
    /\ towers[2].target = enemies[1].id
    /\ towers[1].sinceFired = 0
    /\ towers[2].sinceFired = 0

\* the sum of the rewards of the first k enemies of the registry
RECURSIVE C18_Rewards(_)
C18_Rewards(k) == IF k = 0 THEN 0 ELSE enemies[k].reward + C18_Rewards(k - 1)

\* C18: when the fly-in animation of the full-map attack ends, every enemy
\* of the registry is removed, those spawned after the activation included;
\* the reward of each is added to the gold and 15 times it to the score,
\* no life is lost, and the registry is empty afterwards
C18_AttackDestroysAll ==
    [][ lastEvent' = "attackDone" =>
            /\ Len(enemies') = 0
            /\ gold' = gold + C18_Rewards(Len(enemies))
            /\ score' = score + 15 * C18_Rewards(Len(enemies))
            /\ lives' = lives ]_vars

\* the attack has just emptied a registry that was not empty: a tower
\* still holds the reference to an enemy of the last frame step, in a wave
\* that is in progress
C18_Witness ==
    /\ lastEvent = "attackDone"
    /\ Len(enemies) = 0
    /\ gameStarted
    /\ \E k \in 1..Len(towers) : towers[k].target # 0

\* C19: the towers are inserted only by a placement that passed the balance
\* and the position checks, and no step removes or replaces a tower: a place
\* request enters the loads in flight only in a step of placeTower taken
\* while the game runs, the gold covers the cost of the kind and the point
\* keeps the minimum distances; the list of towers changes only by the
\* completion of such a load, which appends one tower of the requested kind
\* at the requested point; every tower built keeps its place, its point and
\* its kind in every step of a frame (counter-fire and projectile passes
\* included), of the full-map attack and of a wave start
C19_DefendersOnlyGrow ==
    [][ /\ Len(towers') >= Len(towers)
        /\ \A k \in 1..Len(towers) :
              /\ towers'[k].pos = towers[k].pos
              /\ towers'[k].type = towers[k].type
        /\ Len(towers') > Len(towers) =>
              /\ Len(towers') = Len(towers) + 1
              /\ lastEvent' = "built"
              /\ \E r \in BagToSet(pending) :
                    /\ r.op = "place"
                    /\ r.kind = towers'[Len(towers')].type
                    /\ r.pos = towers'[Len(towers')].pos
                    /\ pending' = pending (-) SetToBag({r})
        /\ \A r \in BagToSet(pending') :
              (r.op = "place" /\ CopiesIn(r, pending') > CopiesIn(r, pending)) =>
                  /\ lastEvent' = "placeRequested"
                  /\ ~isPaused
                  /\ r.kind = selectedTowerType
                  /\ gold >= towerTypes[r.kind].cost
                  /\ \A k \in 1..Len(towers) :
                        Abs(r.pos - towers[k].pos) >= 6 * Scale
                  /\ \A k \in 1..Len(colonies) :
                        Abs(r.pos - colonies[k]) >= 10 * Scale
                  /\ \A k \in DOMAIN path :
                        Abs(r.pos - path[k]) >= 4 * Scale ]_vars

\* both towers stand after a frame step late in the campaign: the full-map
\* attack has been commanded, waves have started, and an enemy has shot
\* at a tower so recently that its projectile, no longer in flight, can
\* only have been removed by its hit
C19_Witness ==
    /\ lastEvent = "frame"
    /\ Len(towers) = 2
    /\ wave >= 2
    /\ selectedTowerType = "playerAttack"
    /\ Len(enemyProjectiles) = 0
    /\ \E k \in 1..Len(enemies) : enemies[k].sinceShot < SinceCap

\* the indices of the enemies of the registry that the step removes
C20_Gone ==
    {k \in 1..Len(enemies) :
        \A h \in 1..Len(enemies') : enemies'[h].id # enemies[k].id}

\* those of them that stood at the last waypoint before the step
C20_Leaked == {k \in C20_Gone : enemies[k].pathIndex >= PathLen - 1}

RECURSIVE C20_Rewards(_)
C20_Rewards(S) ==
    IF S = {} THEN 0
    ELSE LET k == CHOOSE x \in S : TRUE
         IN  enemies[k].reward + C20_Rewards(S \ {k})

\* the wave completion bonus of the step
C20_Bonus == IF gameStarted /\ ~gameStarted' THEN 25 + wave * 10 ELSE 0

\* C20: every enemy leaves the registry by one route with one effect.  The
\* enemies of the registry are distinct; only a frame step and the end of
\* the full-map attack remove enemies.  A frame step takes one life for
\* each removed enemy that stood at the last waypoint and credits nothing
\* for it, and credits the reward (15 times to the score) of each other
\* removed enemy once and takes no life for it; apart from the wave bonus
\* gold, score and lives change by nothing else.  The end of the attack
\* credits the reward of each enemy once and takes no life.  No other
\* step changes lives or score.
C20_OneRouteOneEffect ==
    [][ /\ \A j, k \in 1..Len(enemies) :
              enemies[j].id = enemies[k].id => j = k
        /\ lastEvent' = "frame" =>
              /\ lives' = lives - Cardinality(C20_Leaked)
              /\ gold' = gold + C20_Rewards(C20_Gone \ C20_Leaked) + C20_Bonus
              /\ score' = score + 15 * C20_Rewards(C20_Gone \ C20_Leaked)
                               + 5 * C20_Bonus
        /\ lastEvent' = "attackDone" =>
              /\ C20_Gone = 1..Len(enemies)
              /\ lives' = lives
              /\ gold' = gold + C20_Rewards(C20_Gone)
              /\ score' = score + 15 * C20_Rewards(C20_Gone)
        /\ lastEvent' \notin {"frame", "attackDone"} =>
              /\ C20_Gone = {}
              /\ lives' = lives
              /\ score' = score ]_vars

\* the three routes have been taken in one game: a life has been lost, the
\* gold for the full-map attack has been earned by kills, and the attack
\* has just emptied a registry that was not empty
C20_Witness ==
    /\ lastEvent = "attackDone"
    /\ lives < InitLives
    /\ selectedTowerType = "playerAttack"
    /\ \E k \in 1..Len(towers) : towers[k].target # 0

\* the indices of the enemies strictly within the range of the tower t
C21_InRange(t) ==
    {k \in 1..Len(enemies) :
        Abs(enemies[k].pos - t.pos) < towerTypes[t.type].range * Scale}

\* C21: after a frame step the target of every tower is the enemy at the
\* least distance among those at a distance strictly below the range of
\* the tower, the first of the registry among those at that distance, and
\* it is absent when no enemy is that close; an enemy at exactly the range
\* is not eligible.  The target of the step before plays no part.
C21_TargetIsClosestInRange ==
    lastEvent = "frame" =>
        \A n \in 1..Len(towers) :
            LET t == towers[n]
                S == C21_InRange(t)
            IN  IF S = {} THEN t.target = 0
                ELSE \E k \in S :
                        /\ t.target = enemies[k].id
                        /\ \A h \in S :
                              \/ Abs(enemies[k].pos - t.pos)
                                    < Abs(enemies[h].pos - t.pos)
                              \/ /\ Abs(enemies[k].pos - t.pos)
                                       = Abs(enemies[h].pos - t.pos)
                                 /\ k <= h

\* after a frame step an enemy stands at exactly the range of a basic
\* tower, which has no target, while another enemy is out of its range
C21_Witness ==
    /\ lastEvent = "frame"
    /\ Len(enemies) = 2
    /\ \E n \in 1..Len(towers) :
          /\ towers[n].type = "basic"
          /\ towers[n].target = 0
          /\ \E k \in 1..Len(enemies) :
                Abs(enemies[k].pos - towers[n].pos) = 10 * Scale

\* C22: in a frame step a tower fires exactly when it holds a target and
\* the time since its last shot is at least its fire interval, so that a
\* basic tower fires again when exactly 900 milliseconds have passed; the
\* shot resets the time since the last shot and appends one projectile.
\* The code tests currentTime - lastFired > fireRate, and the tower that
\* holds a target exactly 900 milliseconds after its shot does not fire.
C22_FiresAtInterval ==
    [][ lastEvent' = "frame" =>
          \E dt \in CombatDts :
            \A n \in 1..Len(towers) :
                (towers'[n].sinceFired = 0)
                    <=> /\ towers'[n].target # 0
                        /\ Saturate(towers[n].sinceFired + dt)
                              >= towerTypes[towers[n].type].fireRate ]_vars

\* the projectile aims at an enemy that the registry no longer holds after
\* the step
C23_Orphan(p) == \A j \in 1..Len(enemies') : enemies'[j].id # p.target

\* a projectile one update older
C23_Moved(p) ==
    [p EXCEPT !.pos = @ + p.dir * ProjectileSpeed, !.life = @ + 1]

RECURSIVE C23_MoveAll(_)
C23_MoveAll(ps) ==
    IF ps = << >> THEN << >>
    ELSE <<C23_Moved(Head(ps))>> \o C23_MoveAll(Tail(ps))

\* C23: a projectile applies damage only to its own target and only while
\* the registry holds that target.  In a frame step the health of an enemy
\* that stays changes only if a projectile in flight aims at it or a tower
\* fires at it in that step; the projectiles whose target is gone (killed,
\* past the last waypoint or destroyed by the full-map attack) all fly on,
\* one update older, until the update that makes them older than 100
\* removes them; no other step changes a health or a projectile.
C23_OrphansAreHarmless ==
    [][ /\ lastEvent' = "frame" =>
              /\ \A j \in 1..Len(enemies') :
                    \A i \in 1..Len(enemies) :
                        ( /\ enemies[i].id = enemies'[j].id
                          /\ \A n \in 1..Len(projectiles) :
                                projectiles[n].target # enemies[i].id
                          /\ \A n \in 1..Len(towers') :
                                ~( towers'[n].target = enemies[i].id
                                   /\ towers'[n].sinceFired = 0 ) )
                        => enemies'[j].health = enemies[i].health
              /\ SelectSeq(projectiles', C23_Orphan)
                    = C23_MoveAll(SelectSeq(projectiles,
                          LAMBDA p : C23_Orphan(p) /\ p.life + 1 <= ProjectileLife))
        /\ lastEvent' # "frame" =>
              /\ projectiles' = projectiles
              /\ \A j \in 1..Len(enemies') :
                    \A i \in 1..Len(enemies) :
                        enemies[i].id = enemies'[j].id
                            => enemies'[j].health = enemies[i].health ]_vars

\* after a frame step a projectile whose target is gone lies within the hit
\* radius of an enemy that has not lost any health
C23_Witness ==
    /\ lastEvent = "frame"
    /\ \E n \in 1..Len(projectiles) :
          /\ \A j \in 1..Len(enemies) : enemies[j].id # projectiles[n].target
          /\ \E j \in 1..Len(enemies) :
                /\ Abs(projectiles[n].pos - enemies[j].pos) < HitRadius
                /\ enemies[j].health = enemies[j].maxHealth

\* a is b with some of its items left out
RECURSIVE C24_IsSubSeq(_, _)
C24_IsSubSeq(a, b) ==
    IF a = << >> THEN TRUE
    ELSE IF b = << >> THEN FALSE
    ELSE IF Head(a) = Head(b) THEN C24_IsSubSeq(Tail(a), Tail(b))
    ELSE C24_IsSubSeq(a, Tail(b))

\* the projectiles in flight, each with only its position advanced by its
\* own direction times the speed and its age incremented
RECURSIVE C24_Advanced(_)
C24_Advanced(ps) ==
    IF ps = << >> THEN << >>
    ELSE << [pos |-> Head(ps).pos + Head(ps).dir * ProjectileSpeed,
             dir |-> Head(ps).dir, damage |-> Head(ps).damage,
             target |-> Head(ps).target, life |-> Head(ps).life + 1,
             type |-> Head(ps).type] >> \o C24_Advanced(Tail(ps))

\* C24: the direction, the damage and the target of a projectile are fixed
\* when it is fired.  No projectile in flight is of age 0; in a frame step
\* the projectiles older than one update are, in their order, projectiles
\* of the state before with the same direction, damage, target and kind,
\* the position advanced by direction * speed and the age incremented,
\* whether or not the target has moved or has left the registry; a
\* projectile of age 1 was fired in that step by a tower, with the damage
\* of its kind, at the target of that tower and in the direction of that
\* target at that time; no other step changes a projectile.
C24_ProjectilesDoNotReAim ==
    [][ /\ \A n \in 1..Len(projectiles) : projectiles[n].life >= 1
        /\ lastEvent' = "frame" =>
              /\ C24_IsSubSeq(SelectSeq(projectiles', LAMBDA q : q.life > 1),
                              C24_Advanced(projectiles))
              /\ \A n \in 1..Len(projectiles') :
                    projectiles'[n].life = 1 =>
                        \E k \in 1..Len(towers'), j \in 1..Len(enemies') :
                            LET t == towers'[k]
                                q == projectiles'[n]
                                d == Normalize(enemies'[j].pos - t.pos)
                            IN  /\ t.sinceFired = 0
                                /\ t.target = enemies'[j].id
                                /\ q.target = t.target
                                /\ q.type = t.type
                                /\ q.damage = towerTypes[t.type].damage
                                /\ q.dir = d
                                /\ q.pos = t.pos + d * ProjectileSpeed
        /\ lastEvent' # "frame" => projectiles' = projectiles ]_vars

\* after a frame step a projectile older than one update, whose target has
\* left the registry, flies away from an enemy of the registry: it keeps
\* the direction and the target it was fired with
C24_Witness ==
    /\ lastEvent = "frame"
    /\ \E n \in 1..Len(projectiles), j \in 1..Len(enemies) :
          /\ \A h \in 1..Len(enemies) : enemies[h].id # projectiles[n].target
          /\ projectiles[n].life > 1
          /\ projectiles[n].dir # 0
          /\ Normalize(enemies[j].pos - projectiles[n].pos) = -projectiles[n].dir

\* the enemy, tower and projectile passes of a frame step, dt milliseconds
\* after the previous one, from the state as it is but with no enemy
\* projectile in flight, and without the enemy projectile pass
C25_WithoutEnemyFire(dt) ==
    updateProjectiles(updateTowers(updateEnemies(
        [enemies |-> AgeEnemies(enemies, dt),
         towers |-> AgeTowers(towers, dt),
         projectiles |-> projectiles,
         enemyProjectiles |-> << >>,
         gold |-> gold, lives |-> lives, score |-> score,
         reload |-> FALSE])))

\* C25: the enemy projectiles are cosmetic.  A frame step leaves the towers,
\* the enemies (their health included), the tower projectiles, gold, lives,
\* score and the wave state exactly as it would with no enemy projectile in
\* flight and no enemy projectile pass, whatever enemy projectiles it
\* creates, advances, removes on a hit or removes on expiry; no other step
\* changes the enemy projectiles.
C25_EnemyFireIsCosmetic ==
    [][ /\ lastEvent' = "frame" =>
              \E dt \in CombatDts :
                  LET st   == C25_WithoutEnemyFire(dt)
                      done == /\ gameStarted
                              /\ enemiesSpawned >= enemiesInWave
                              /\ Len(st.enemies) = 0
                      bonus == IF done THEN 25 + wave * 10 ELSE 0
                  IN  /\ towers' = st.towers
                      /\ enemies' = st.enemies
                      /\ projectiles' = st.projectiles
                      /\ lives' = st.lives
                      /\ gold' = st.gold + bonus
                      /\ score' = st.score + 5 * bonus
                      /\ gameStarted' = (gameStarted /\ ~done)
                      /\ UNCHANGED << wave, enemiesInWave, enemiesSpawned >>
        /\ lastEvent' # "frame" => enemyProjectiles' = enemyProjectiles ]_vars

\* after a frame step an enemy has shot at a tower less than its fire
\* interval ago, no enemy projectile is in flight any more (only a hit can
\* have removed it so soon), and the tower it hit has fired in this step
C25_Witness ==
    /\ lastEvent = "frame"
    /\ Len(enemyProjectiles) = 0
    /\ \E k \in 1..Len(enemies) :
          /\ enemies[k].sinceShot < SinceCap
          /\ enemies[k].target # 0
          /\ towers[enemies[k].target].sinceFired = 0

\* the indices of the towers strictly within the range of an enemy at x
C26_InRange(x) ==
    {n \in 1..Len(towers') : Abs(towers'[n].pos - x) < 15 * Scale}

\* C26: after a frame step the target of every enemy of the registry is the
\* tower at the least distance among those at a distance strictly below
\* 15, the first of the tower list among those at that distance, and it is
\* absent when no tower is that close; an enemy that has shot in the step
\* holds a target, and more than its fire interval of 2000 milliseconds had
\* passed since its shot before.
C26_EnemyTargetsClosestTower ==
    [][ lastEvent' = "frame" =>
          \A j \in 1..Len(enemies') :
            LET e == enemies'[j]
                S == C26_InRange(e.pos)
            IN  /\ IF S = {} THEN e.target = 0
                   ELSE /\ e.target \in S
                        /\ \A h \in S :
                              \/ Abs(towers'[e.target].pos - e.pos)
                                    < Abs(towers'[h].pos - e.pos)
                              \/ /\ Abs(towers'[e.target].pos - e.pos)
                                       = Abs(towers'[h].pos - e.pos)
                                 /\ e.target <= h
                /\ e.sinceShot = 0 =>
                      /\ e.target # 0
                      /\ \E i \in 1..Len(enemies), dt \in CombatDts :
                            /\ enemies[i].id = e.id
                            /\ enemies[i].sinceShot + dt > 2000 ]_vars

\* after a frame step an enemy stands at exactly its range from the second
\* tower and at less from the first, which it holds as its target
C26_Witness ==
    /\ lastEvent = "frame"
    /\ Len(towers) = 2
    /\ \E j \in 1..Len(enemies) :
          /\ Abs(towers[2].pos - enemies[j].pos) = 15 * Scale
          /\ Abs(towers[1].pos - enemies[j].pos) < 15 * Scale
          /\ enemies[j].target = 1

\* the enemy after its one movement of a frame step: index, progress
C27_Stepped(e) ==
    IF e.pathProgress + e.speed >= ProgressFull
    THEN <<e.pathIndex + 1, 0>>
    ELSE <<e.pathIndex, e.pathProgress + e.speed>>

\* the enemy is removed by the enemy pass: it stands at the last waypoint,
\* or its health is not positive
C27_Leaves(e) == e.pathIndex >= PathLen - 1 \/ e.health <= 0

RECURSIVE C27_Ids(_)
C27_Ids(es) == IF es = << >> THEN << >> ELSE <<Head(es).id>> \o C27_Ids(Tail(es))

\* C27: removal during the iteration is safe.  In a frame step every enemy
\* of the registry is handled exactly once by the enemy pass: the ones at
\* the last waypoint and the ones without health are all removed, each
\* costing one life or crediting its reward once, and the others all stay,
\* in their order, each moved exactly once, whichever of them are removed;
\* likewise no projectile is passed over or handled twice: the projectiles
\* older than one update after the step are projectiles of the state
\* before advanced exactly once, and none of them is older than 100.
C27_RemovalDuringIterationIsSafe ==
    [][ lastEvent' = "frame" =>
          /\ C27_Ids(enemies')
                = C27_Ids(SelectSeq(enemies, LAMBDA e : ~C27_Leaves(e)))
          /\ \A j \in 1..Len(enemies') : \A i \in 1..Len(enemies) :
                enemies[i].id = enemies'[j].id =>
                    <<enemies'[j].pathIndex, enemies'[j].pathProgress>>
                        = C27_Stepped(enemies[i])
          /\ lives' = lives - Len(SelectSeq(enemies,
                          LAMBDA e : e.pathIndex >= PathLen - 1))
          /\ C24_IsSubSeq(SelectSeq(projectiles', LAMBDA q : q.life > 1),
                          C24_Advanced(projectiles))
          /\ \A n \in 1..Len(projectiles') :
                projectiles'[n].life <= ProjectileLife ]_vars

\* two enemies that walked side by side (their shots, still in flight, are
\* the same) have been removed at the last waypoint by the same enemy pass
C27_Witness ==
    /\ lastEvent = "frame"
    /\ Len(enemies) = 0
    /\ lives = InitLives - 2
    /\ Len(enemyProjectiles) = 2
    /\ enemyProjectiles[1] = enemyProjectiles[2]

\* C28: when the frame steps keep coming, the spawn chance keeps succeeding
\* while a spawn is due, every model load completes and the loads do not
\* fail for ever, a wave that has been started is eventually complete (the
\* director is idle again) or the game is over: a failed spawn leaves the
\* spawned counter alone and a later frame step requests the spawn again.
C28_WaveEnds == gameStarted ~> (~gameStarted \/ reloading)

\* a wave is complete: the director is idle after a frame step of a started
\* wave, all its enemies have been spawned and none is left, with lives left
C28_Witness ==
    /\ lastEvent = "frame"
    /\ wave >= 1
    /\ ~gameStarted
    /\ enemiesSpawned >= enemiesInWave
    /\ Len(enemies) = 0
    /\ lives > 0

\* C29: an enemy is inserted with health = maxHealth = 60 + 20 * wave and
\* reward 15 + 2 * wave when wave <= 1, with 100 + 20 * wave and
\* 25 + 2 * wave when wave > 1, at path index 0 with progress 0, also when
\* the wave number changes between the spawn request and the completion
\* of its load.  The code chooses the base values before the load and
\* reads this.wave again after it.
C29_SpawnStats ==
    [][ lastEvent' = "spawned" =>
          LET e == enemies'[Len(enemies')] IN
          /\ Len(enemies') = Len(enemies) + 1
          /\ e.health = e.maxHealth
          /\ e.health > 0
          /\ e.pathIndex = 0
          /\ e.pathProgress = 0
          /\ e.health = (IF wave' <= 1 THEN 60 ELSE 100) + 20 * wave'
          /\ e.reward = (IF wave' <= 1 THEN 15 ELSE 25) + 2 * wave' ]_vars

\* C30 (as stated): no tower ever holds as target an enemy whose health
\* is <= 0.
C30_NoDeadTarget ==
    \A k \in 1..Len(towers) : \A j \in 1..Len(enemies) :
        towers[k].target = enemies[j].id => enemies[j].health > 0

C30_Alive(id) ==
    \E j \in 1..Len(enemies) : enemies[j].id = id /\ enemies[j].health > 0

\* C30 (amended): the enemy pass of a frame step removes every enemy
\* whose health is <= 0 before the tower pass selects, so the target a
\* tower selects in a frame step, and the target of every projectile
\* fired in it, is an enemy whose health was > 0 when the step began.
C30_SelectsOnlyLive ==
    [][ (lastEvent' = "frame" /\ ~isPaused /\ ~reloading) =>
          /\ \A k \in 1..Len(towers') :
                towers'[k].target # 0 => C30_Alive(towers'[k].target)
          /\ \A i \in 1..Len(projectiles') :
                projectiles'[i].life = 1 =>
                    C30_Alive(projectiles'[i].target) ]_vars

\* after a frame step a tower holds an enemy whose health the projectile
\* pass brought to <= 0: the next frame step has to remove that enemy
\* before the tower selects
C30_Witness ==
    /\ lastEvent = "frame"
    /\ \E k \in 1..Len(towers) : \E j \in 1..Len(enemies) :
          /\ towers[k].target = enemies[j].id
          /\ enemies[j].health <= 0

\* C31: any two towers in the registry are at least the minimum spacing
\* apart, also when two placements at nearby points are both requested
\* before the model load of either has completed.
C31_TowersSpaced ==
    \A h \in 1..Len(towers) : \A k \in 1..Len(towers) :
        h # k => Distance(towers[h].pos, towers[k].pos) >= TowerSpacing

\* C32: while no wave is running (before the first wave, and from a wave's
\* completion to the next startNextWave) no enemy is inserted into the
\* registry and enemiesSpawned does not change, also when spawn requests
\* of the finished wave still await their model loads.
C32_IdleInsertsNothing ==
    [][ (~gameStarted /\ ~gameStarted') =>
          /\ enemiesSpawned' = enemiesSpawned
          /\ \A j \in 1..Len(enemies') :
                \E i \in 1..Len(enemies) : enemies[i].id = enemies'[j].id ]_vars

\* the enemies that a step inserts into the registry
C33_Inserted ==
    {j \in 1..Len(enemies') :
        \A i \in 1..Len(enemies) : enemies[i].id # enemies'[j].id}

\* C33: within a wave enemiesSpawned equals the number of live enemies
\* plus the number of enemies of the wave already removed: the wave begins
\* with the counter at 0 and no live enemy, and afterwards every step
\* raises the counter by the number of enemies it inserts.
C33_SpawnedCountsInsertions ==
    [][ /\ wave' # wave => enemiesSpawned' = Len(enemies')
        /\ wave' = wave =>
              enemiesSpawned' = enemiesSpawned + Cardinality(C33_Inserted) ]_vars

C34_Present(id) == \E i \in 1..Len(enemies) : enemies[i].id = id

\* C34: while the frame steps keep running unpaused, the path index of an
\* enemy never decreases, and every enemy in the registry is eventually
\* removed from it (or the page reloads): its progress grows by its
\* positive speed in each frame step until it reaches the last waypoint,
\* and the following frame step removes it.
C34_EveryEnemyLeaves ==
    /\ [][ \A i \in 1..Len(enemies) : \A j \in 1..Len(enemies') :
              enemies[i].id = enemies'[j].id =>
                  /\ enemies'[j].pathIndex >= enemies[i].pathIndex
                  /\ enemies[i].speed > 0 ]_vars
    /\ \A id \in 1..(MaxEnemies + 1) :
          C34_Present(id) ~> (~C34_Present(id) \/ reloading)

\* an enemy has walked to the last waypoint: the next frame step removes it
C34_Witness ==
    /\ lastEvent = "frame"
    /\ \E i \in 1..Len(enemies) :
          /\ enemies[i].pathIndex = PathLen - 1
          /\ enemies[i].health > 0

\* C35: the cost of the player attack is debited only when the attack goes
\* on to destroy enemies: an activation with no enemy alive aborts and
\* leaves gold unchanged.
C35_AbortedAttackIsFree ==
    [][ (lastEvent' = "attackPaid" /\ Len(enemies) = 0) =>
            /\ gold' = gold
            /\ pending' = pending ]_vars

\* the events that the commands place, selectTowerType and startNextWave
\* leave behind
C36_CommandEvents ==
    {"placeIgnored", "InsufficientFunds", "InvalidPlacement",
     "placeRequested", "attackPaid", "selectIgnored", "selected",
     "startIgnored", "waveStarted"}

\* C36: while the game is paused the commands place, startNextWave and
\* selectTowerType change neither gold, the registries, the wave number,
\* enemiesInWave, enemiesSpawned nor the selected type, and they start no
\* model load.
C36_PausedCommandsAreNoOps ==
    [][ (isPaused /\ lastEvent' \in C36_CommandEvents) =>
          /\ lastEvent' \in {"placeIgnored", "selectIgnored", "startIgnored"}
          /\ UNCHANGED << gold, lives, score, wave, enemiesInWave,
                          enemiesSpawned, selectedTowerType, gameStarted,
                          isPaused, towers, enemies, projectiles,
                          enemyProjectiles, colonies, pending >> ]_vars

\* a place command has been ignored in a paused game that would have
\* accepted it: the gold suffices and the ground point is free
C36_Witness ==
    /\ isPaused
    /\ lastEvent = "placeIgnored"
    /\ gold >= towerTypes[selectedTowerType].cost
    /\ \E position \in CombatXs : ValidPosition(position)
    /\ Len(towers) >= 1
    /\ wave = 0

\* the damage carried by the projectiles of ps that aim at enemy id
RECURSIVE C37_Carried(_, _)
C37_Carried(ps, id) ==
    IF ps = << >> THEN 0
    ELSE (IF Head(ps).target = id THEN Head(ps).damage ELSE 0)
         + C37_Carried(Tail(ps), id)

\* the damage of the towers that fire at enemy id in this step
RECURSIVE C37_Fired(_, _)
C37_Fired(ts, id) ==
    IF ts = << >> THEN 0
    ELSE (IF Head(ts).target = id /\ Head(ts).sinceFired = 0
          THEN towerTypes[Head(ts).type].damage ELSE 0)
         + C37_Fired(Tail(ts), id)

\* the projectiles in flight that this update removes for their age at a
\* point outside the hit radius of at
C37_Expired(at) ==
    SelectSeq(projectiles,
        LAMBDA p : /\ p.life + 1 > ProjectileLife
                   /\ ~(Distance(p.pos + p.dir * ProjectileSpeed, at)
                          < HitRadius))

\* C37: a projectile applies its damage at most once, because the update
\* in which it hits removes it.  No projectile in the registry lies within
\* the hit radius of its target, and in a frame step the health that an
\* enemy loses is the damage carried by the projectiles aimed at it that
\* leave the registry in that step short of their time to live, each
\* counted once, however many hit in the same step.
C37_DamageAppliedOnce ==
    /\ [] (\A n \in 1..Len(projectiles) : \A i \in 1..Len(enemies) :
              projectiles[n].target = enemies[i].id =>
                  ~(Distance(projectiles[n].pos, enemies[i].pos) < HitRadius))
    /\ [][ lastEvent' = "frame" =>
              \A j \in 1..Len(enemies') : \A i \in 1..Len(enemies) :
                  enemies[i].id = enemies'[j].id =>
                      enemies[i].health - enemies'[j].health
                        = C37_Carried(projectiles, enemies[i].id)
                          + C37_Fired(towers', enemies[i].id)
                          - C37_Carried(C37_Expired(enemies'[j].pos),
                                        enemies[i].id)
                          - C37_Carried(projectiles', enemies[i].id) ]_vars

\* an enemy that has taken a hit before has two projectiles aimed at it in
\* flight, and the next update brings both within the hit radius of the
\* point the enemy walks to: both hit in the same frame step
C37_Witness ==
    /\ ~isPaused
    /\ \E i \in 1..Len(enemies) :
          /\ enemies[i].pathIndex < PathLen - 1
          /\ enemies[i].health > 0
          /\ enemies[i].health < enemies[i].maxHealth
          /\ \E m \in 1..Len(projectiles) : \E n \in 1..Len(projectiles) :
                /\ m < n
                /\ projectiles[m].target = enemies[i].id
                /\ projectiles[n].target = enemies[i].id
                /\ Distance(projectiles[m].pos
                              + projectiles[m].dir * ProjectileSpeed,
                            MoveEnemy(enemies[i]).pos) < HitRadius
                /\ Distance(projectiles[n].pos
                              + projectiles[n].dir * ProjectileSpeed,
                            MoveEnemy(enemies[i]).pos) < HitRadius

====
